---- MODULE Spec2Model ----
(***************************************************************************)
(* The real-time notification layer of backend/app/core/websocket.py:      *)
(* ConnectionManager (connection registry, topic subscriptions, offline    *)
(* message queue with its optional Redis mirror) and the websocket         *)
(* endpoint that drives it.                                                *)
(*                                                                         *)
(* The manager runs on one asyncio event loop.  A coroutine runs without   *)
(* interruption up to its next real suspension point, which is a socket    *)
(* call (accept, send_text) or a Redis call; every action below is one     *)
(* such uninterrupted run of one coroutine.  `await self.disconnect(..)`   *)
(* and the other awaits of coroutines of the manager itself do not         *)
(* suspend on their own.                                                   *)
(*                                                                         *)
(* A dict is a function whose DOMAIN is its key set.  Where the code       *)
(* iterates a dict while it may be mutated, the dict keeps CPython's       *)
(* insertion-ordered entry array: deleting a key leaves a hole (0).        *)
(***************************************************************************)
EXTENDS Integers, Sequences, FiniteSets, TLC

\* ------------------------------------------------------------------ bounds
NUsers == 2
NTasks == 2
MaxConn == 2
MaxMsg == 2
\* calls (connect, send, fan-out) one run makes, and transports that fail in it
MaxCalls == 3
MaxBreak == 1
\* A scenario bound of the full-queue specification: publishes made there.
MaxFill == 2

\* heartbeat_response messages one user's clients send in a run
MaxResponses == 1

\* connection attempts without a user id in a run
MaxRejects == 1

\* websocket.py:505, the close code of a handshake without user id
UserIdRequired == 4001

\* restarts of the process in a run
MaxRestarts == 1

\* iterations of the heartbeat loop in a run
MaxBeats == 2

\* connection ids that callers of connect() choose themselves
NClientIds == 2

\* websocket.py:235-236, the in-memory queue cap, and :245, the Redis trim.
QueueLimit == 100

Users == 1..NUsers
Tasks == 1..NTasks
Topics == {"robots"}
\* ids connect() draws are socket numbers; the callers' own lie above them
ClientIds == (MaxConn + 1)..(MaxConn + NClientIds)
ConnectionIds == 1..(MaxConn + NClientIds)

VARIABLES
    active_keys,         \* key order of self.active_connections (dict order)
    active_connections,  \* user_id -> entry array of {connection_id: websocket}
    user_connections,    \* user_id -> [connection_id]            (legacy)
    user_metadata,       \* user_id -> [connection_count]
    subscriptions,       \* topic -> set of user_id
    message_queue,       \* user_id -> [NotificationMessage]
    redis_client,        \* whether initialize() installed a Redis client
    redis_store,         \* Redis lists websocket_queue:{user_id}, head first
    message_user,        \* message object -> its mutable user_id field
    wire,                \* connection -> envelopes accepted by its socket
    broken,              \* connections whose socket writes raise
    stalled,             \* connections whose socket writes never complete
    endpoint,            \* connection -> its websocket_endpoint handler
    next_conn,           \* uuid4() for connection ids: the next fresh id
    next_msg,            \* uuid4() for message ids: the next fresh id
    budget,              \* calls the scenario may still make
    msg_budget,          \* publishes among them
    users_seen,          \* the users 1..users_seen have appeared so far
    subscribed,          \* history: <<user, topic>> whose last request was subscribe
    drained,             \* history: messages replayed by the connects that ended
    responses,           \* history: user -> heartbeat_response messages handled
    rejected,            \* close codes sent to websockets refused at the handshake
    restarts,            \* process restarts so far
    lost_queue,          \* history: message_queue as the last restart lost it
    heartbeat,           \* the loop of start_heartbeat_task
    tasks                \* the coroutines in flight

vars == <<active_keys, active_connections, user_connections, user_metadata,
          subscriptions, message_queue, redis_client, redis_store,
          message_user, wire, broken, stalled, endpoint, next_conn, next_msg,
          budget, msg_budget, users_seen, subscribed, drained, responses,
          rejected, restarts, lost_queue, heartbeat, tasks>>

\* --------------------------------------------------------------- helpers
Put(f, k, v) == [x \in DOMAIN f \cup {k} |-> IF x = k THEN v ELSE f[x]]
Del(f, k) == [x \in DOMAIN f \ {k} |-> f[x]]
Get(f, k, d) == IF k \in DOMAIN f THEN f[k] ELSE d
Min(S) == CHOOSE x \in S : \A y \in S : x <= y
Range(s) == {s[i] : i \in DOMAIN s}
Reverse(s) == [i \in 1..Len(s) |-> s[Len(s) + 1 - i]]
Count(s, x) == Cardinality({i \in DOMAIN s : s[i] = x})
\* list.remove(x): drops the first occurrence
RemoveFirst(s, x) ==
    IF x \notin Range(s) THEN s
    ELSE LET i == Min({j \in DOMAIN s : s[j] = x})
         IN SubSeq(s, 1, i - 1) \o SubSeq(s, i + 1, Len(s))
\* s[-n:]
LastN(s, n) == IF Len(s) <= n THEN s ELSE SubSeq(s, Len(s) - n + 1, Len(s))
\* s[0:n]
FirstN(s, n) == IF Len(s) <= n THEN s ELSE SubSeq(s, 1, n)
\* the orders in which a set can be iterated
Orders(S) ==
    {s \in [1..Cardinality(S) -> S] : \A i, j \in DOMAIN s : s[i] = s[j] => i = j}

\* the live keys of a dict's entry array, and their number (len(dict))
Live(ents) == Range(ents) \ {0}
LiveCount(ents) == Cardinality({i \in DOMAIN ents : ents[i] # 0})
DictDel(ents, k) == [i \in DOMAIN ents |-> IF ents[i] = k THEN 0 ELSE ents[i]]

\* The whole state as one record, so that a method is an operator on it.
Cur ==
    [active_keys |-> active_keys, active_connections |-> active_connections,
     user_connections |-> user_connections, user_metadata |-> user_metadata,
     subscriptions |-> subscriptions, message_queue |-> message_queue,
     redis_client |-> redis_client, redis_store |-> redis_store,
     message_user |-> message_user, wire |-> wire, broken |-> broken,
     stalled |-> stalled,
     endpoint |-> endpoint, next_conn |-> next_conn, next_msg |-> next_msg,
     budget |-> budget, msg_budget |-> msg_budget, users_seen |-> users_seen, subscribed |-> subscribed,
     drained |-> drained, responses |-> responses, rejected |-> rejected,
     restarts |-> restarts, lost_queue |-> lost_queue, heartbeat |-> heartbeat,
     tasks |-> tasks]

\* start_heartbeat_task has not been started
NoHeartbeat ==
    [state |-> "off",   \* off, calling (in send_heartbeat), sleep30, sleep5
     task |-> 0,        \* the frame of its send_heartbeat call
     beats |-> 0,       \* send_heartbeat calls made so far
     errors |-> 0]      \* exceptions its except clause caught

\* --------------------------------------------------------- coroutine frames
NoIter ==
    [attached |-> FALSE, user |-> 0, used |-> 0, pos |-> 0, len |-> 0,
     cur |-> 0, orphan |-> <<>>]
NoEnvelope == [message_id |-> 0, user_id |-> 0]

\* Python's None, the value of a call that ends without a return statement
None == [type |-> "NoneType"]

IdleFrame ==
    [pc |-> "idle",        \* where the coroutine is suspended
     op |-> "none",        \* the call the task was started for
     user |-> 0,           \* connect: user_id; send: the addressed user
     topic |-> "",         \* send_to_topic: topic
     msg |-> 0,            \* the NotificationMessage being sent
     todo |-> <<>>,        \* fan-out: users still to send to
     su |-> 0,             \* send_to_user_enhanced: user_id
     it |-> NoIter,        \* the dict iterator of the running for loop
     disc |-> <<>>,        \* disconnected_connections
     werr |-> FALSE,       \* the awaited send_text raises
     conn |-> 0,           \* connect: connection_id
     cid |-> 0,            \* connect: the connection_id argument, 0 for None
     qi |-> 0,             \* _send_queued_messages: list iterator index
     qattached |-> FALSE,  \* the iterated list is still message_queue[user]
     qitems |-> <<>>,      \* the iterated list once it is no longer
     rmsg |-> 0,           \* the queued message being replayed
     rdata |-> NoEnvelope, \* a serialised message (Redis argument or item)
     rlist |-> <<>>,       \* reversed(messages) still to replay
     li |-> 0,             \* send_to_user: list iterator index
     lattached |-> FALSE,  \* the iterated list is still user_connections[user]
     status |-> "",        \* robot request: status of the command / connection
     http |-> 0,           \* robot request: status code of the response
     result |-> None,      \* the value the call returned to its caller
     \* history of the call, for stating the properties
     solo |-> TRUE,        \* no other coroutine touched the call's user(s)
     present0 |-> FALSE,   \* the user was present when the call began
     conns0 |-> {},        \* the user's connections when the call began
     subs0 |-> {},         \* send_to_topic: the subscribed users then
     q0 |-> <<>>,          \* connect: the user's queue at registration
     failed |-> {},        \* connections whose write raised in this call
     wrote |-> <<>>,       \* connections send_to_user_enhanced wrote, in order
     sent |-> <<>>,        \* fan-out: users send_to_user_enhanced was called for
     queued |-> <<>>,      \* users _queue_message appended for, in order
     replayed |-> <<>>,    \* [conn, id] the replay wrote, in order
     removed |-> {},       \* connections the call's clean-up unregistered
     rfailed |-> {}]       \* Redis calls of this call that raised

SetF(S, t, f) == [S EXCEPT !.tasks[t] = f]

\* json.dumps(asdict(message)): the envelope as it is serialised now
Envelope(S, m) == [message_id |-> m, user_id |-> S.message_user[m]]

\* websocket.send_text(data) on a healthy socket
Write(S, c, env) == [S EXCEPT !.wire[c] = Append(@, env)]

\* ------------------------------------------------------------ dict iterator
\* iter(d.items()) / iter(d.values()) of the user's connection dict
\* NewIter over a copy of the dict, as `for .. in list(d.items())` would be
NewIterSnapshot(S, u) ==
    [attached |-> FALSE, user |-> u,
     used |-> LiveCount(S.active_connections[u]), pos |-> 0,
     len |-> LiveCount(S.active_connections[u]),
     cur |-> 0, orphan |-> S.active_connections[u]]

\* iter() of active_connections[u].items() (line 204) or .values() (256, 273)
NewIter(S, u) ==
    [attached |-> TRUE, user |-> u,
     used |-> LiveCount(S.active_connections[u]), pos |-> 0,
     len |-> LiveCount(S.active_connections[u]),
     cur |-> 0, orphan |-> <<>>]

\* next() on it (CPython's dictiter_iternext): RuntimeError when the dict's
\* size changed, or when more keys turn up than it had.  An iterator whose
\* dict was deleted from active_connections iterates an emptied dict; one
\* whose dict was dropped by active_connections.clear() iterates that dict as
\* it was left.
IterNext(S, it) ==
    LET ents == IF it.attached THEN S.active_connections[it.user]
                ELSE it.orphan
        cand == {i \in DOMAIN ents : i > it.pos /\ ents[i] # 0}
    IN  IF it.used # LiveCount(ents)
        THEN [kind |-> "raise", conn |-> 0, it |-> it]
        ELSE IF cand = {}
        THEN [kind |-> "stop", conn |-> 0, it |-> it]
        ELSE IF it.len = 0
        THEN [kind |-> "raise", conn |-> 0, it |-> it]
        ELSE [kind |-> "item", conn |-> ents[Min(cand)],
              it |-> [it EXCEPT !.pos = Min(cand), !.len = @ - 1,
                                !.cur = ents[Min(cand)]]]

\* the iterators over user u's dict lose it when the dict leaves the map
DetachDict(ts, u) ==
    [x \in DOMAIN ts |->
        IF ts[x].it.attached /\ ts[x].it.user = u
        THEN [ts[x] EXCEPT !.it.attached = FALSE]
        ELSE ts[x]]

\* the list iterators over message_queue[u] keep the list object `items`
\* when the key is deleted or rebound
DetachList(ts, u, items) ==
    [x \in DOMAIN ts |->
        IF ts[x].qattached /\ ts[x].user = u
        THEN [ts[x] EXCEPT !.qattached = FALSE, !.qitems = items]
        ELSE ts[x]]

\* The list iterators over user_connections[u] keep the list object, which
\* is empty by then, when the key is deleted.
DetachLegacy(ts, u) ==
    [x \in DOMAIN ts |->
        IF ts[x].lattached /\ ts[x].user = u
        THEN [ts[x] EXCEPT !.lattached = FALSE]
        ELSE ts[x]]

\* disconnect_all, lines 353-358: the maps are cleared; the dicts and lists
\* that running loops iterate are no longer in them, and stay as they were
DetachAll(S) ==
    [x \in DOMAIN S.tasks |->
        LET f == S.tasks[x]
        IN  [f EXCEPT
               !.it = IF @.attached
                      THEN [@ EXCEPT !.attached = FALSE,
                                     !.orphan = S.active_connections[f.it.user]]
                      ELSE @,
               !.qitems = IF f.qattached THEN S.message_queue[f.user] ELSE @,
               !.qattached = FALSE,
               !.lattached = FALSE]]

\* --------------------------------------------------- ConnectionManager
\* connect, lines 105-130: the registration that follows accept()
\* A connection is named c, the number of its socket; endpoint[c].conn is the
\* connection_id it is registered under, which is c when connect() drew it
\* (line 106) and the caller's argument otherwise.  Assigning to a key the
\* dict already has replaces the value in place (line 112), and the list
\* takes an id once (lines 117-118).
Register(S, t) ==
    LET f == S.tasks[t]
        u == f.user
        c == S.next_conn
        connection_id == IF f.cid = 0 THEN c ELSE f.cid
        SameKey(x) == x # 0 /\ S.endpoint[x].conn = connection_id
        Assign(seq) ==
            IF \E i \in DOMAIN seq : SameKey(seq[i])
            THEN [i \in DOMAIN seq |-> IF SameKey(seq[i]) THEN c ELSE seq[i]]
            ELSE Append(seq, c)
        ents == Assign(Get(S.active_connections, u, <<>>))
        legacy == Get(S.user_connections, u, <<>>)
    IN  [S EXCEPT
            !.active_keys =
                IF u \in DOMAIN S.active_connections THEN @ ELSE Append(@, u),
            !.active_connections = Put(@, u, ents),
            !.user_connections = Put(@, u, Assign(legacy)),
            !.user_metadata =
                Put(@, u, [connection_count |-> LiveCount(ents)]),
            !.wire = Put(@, c, <<>>),
            !.endpoint = Put(@, c, [user |-> u, state |-> "connecting",
                                    conn |-> connection_id]),
            !.next_conn = c + 1,
            !.tasks[t] = [f EXCEPT
                !.conn = c,
                !.present0 = u \in DOMAIN S.active_connections,
                !.conns0 = Live(Get(S.active_connections, u, <<>>)),
                !.pc = "replay_enter"]]

\* every registered connection
Registered(S) ==
    UNION {Live(S.active_connections[u]) : u \in DOMAIN S.active_connections}

\* Disconnect without lines 149-152: the emptied dict and the metadata stay
DisconnectKeepUser(S, u, c) ==
    LET registered ==
            /\ u \in DOMAIN S.active_connections
            /\ c \in Live(S.active_connections[u])
        ents == DictDel(S.active_connections[u], c)
        S1 == IF ~registered THEN S
              ELSE [S EXCEPT
                      !.active_connections[u] = ents,
                      !.user_metadata[u].connection_count = LiveCount(ents)]
        legacy == RemoveFirst(Get(S1.user_connections, u, <<>>), c)
    IN  IF u \in DOMAIN S1.user_connections
        THEN [S1 EXCEPT
                !.user_connections =
                    IF legacy = <<>> THEN Del(@, u) ELSE Put(@, u, legacy),
                !.tasks = IF legacy = <<>> THEN DetachLegacy(@, u) ELSE @]
        ELSE S1

\* Disconnect without lines 151-152: the metadata of a user who left stays
DisconnectKeepMetadata(S, u, c) ==
    LET registered ==
            /\ u \in DOMAIN S.active_connections
            /\ c \in Live(S.active_connections[u])
        ents == DictDel(S.active_connections[u], c)
        S1 == IF ~registered THEN S
              ELSE IF Live(ents) = {}
              THEN [S EXCEPT
                      !.active_connections = Del(@, u),
                      !.active_keys = RemoveFirst(@, u),
                      !.tasks = DetachDict(@, u)]
              ELSE [S EXCEPT
                      !.active_connections[u] = ents,
                      !.user_metadata[u].connection_count = LiveCount(ents)]
        legacy == RemoveFirst(Get(S1.user_connections, u, <<>>), c)
    IN  IF u \in DOMAIN S1.user_connections
        THEN [S1 EXCEPT
                !.user_connections =
                    IF legacy = <<>> THEN Del(@, u) ELSE Put(@, u, legacy),
                !.tasks = IF legacy = <<>> THEN DetachLegacy(@, u) ELSE @]
        ELSE S1

\* The connection that user u's dict or list holds under the connection_id
\* of c: c itself, or the one registered under the same id after it.
Holder(S, u, c) ==
    LET held == (Live(Get(S.active_connections, u, <<>>))
                 \cup Range(Get(S.user_connections, u, <<>>))) \ {0}
        same == {x \in held : S.endpoint[x].conn = S.endpoint[c].conn}
    IN  IF same = {} THEN c ELSE CHOOSE x \in same : TRUE

\* Disconnect that also takes a user who left out of every topic
DisconnectUnsubscribes(S, u, c0) ==
    LET c == Holder(S, u, c0)
        registered ==
            /\ u \in DOMAIN S.active_connections
            /\ c \in Live(S.active_connections[u])
        ents == DictDel(S.active_connections[u], c)
        S1 == IF ~registered THEN S
              ELSE IF Live(ents) = {}
              THEN [S EXCEPT
                      !.active_connections = Del(@, u),
                      !.active_keys = RemoveFirst(@, u),
                      !.user_metadata = Del(@, u),
                      !.subscriptions =
                          [topic \in DOMAIN @ |-> @[topic] \ {u}],
                      !.tasks = DetachDict(@, u)]
              ELSE [S EXCEPT
                      !.active_connections[u] = ents,
                      !.user_metadata[u].connection_count = LiveCount(ents)]
        legacy == RemoveFirst(Get(S1.user_connections, u, <<>>), c)
    IN  IF u \in DOMAIN S1.user_connections
        THEN [S1 EXCEPT
                !.user_connections =
                    IF legacy = <<>> THEN Del(@, u) ELSE Put(@, u, legacy),
                !.tasks = IF legacy = <<>> THEN DetachLegacy(@, u) ELSE @]
        ELSE S1

\* disconnect(user_id, connection_id), called with the id of connection c0
Disconnect(S, u, c0) ==
    LET c == Holder(S, u, c0)
        registered ==
            /\ u \in DOMAIN S.active_connections
            /\ c \in Live(S.active_connections[u])
        ents == DictDel(S.active_connections[u], c)
        S1 == IF ~registered THEN S
              ELSE IF Live(ents) = {}
              THEN [S EXCEPT
                      !.active_connections = Del(@, u),
                      !.active_keys = RemoveFirst(@, u),
                      !.user_metadata = Del(@, u),
                      !.tasks = DetachDict(@, u)]
              ELSE [S EXCEPT
                      !.active_connections[u] = ents,
                      !.user_metadata[u].connection_count = LiveCount(ents)]
        legacy == RemoveFirst(Get(S1.user_connections, u, <<>>), c)
    IN  IF u \in DOMAIN S1.user_connections
        THEN [S1 EXCEPT
                !.user_connections =
                    IF legacy = <<>> THEN Del(@, u) ELSE Put(@, u, legacy),
                !.tasks = IF legacy = <<>> THEN DetachLegacy(@, u) ELSE @]
        ELSE S1

\* DisconnectRaises with list.remove() not guarded by line 160: ValueError
\* for an id the list does not hold
DisconnectRaisesUnguarded(S, u, c0) ==
    LET c == Holder(S, u, c0)
    IN  /\ u \in DOMAIN S.user_connections
        /\ c \notin Range(S.user_connections[u])

\* disconnect(user_id, connection_id) raises: the one statement of lines
\* 145-161 that no test guards is line 154, a KeyError when a user who keeps
\* a connection has no metadata
DisconnectRaises(S, u, c0) ==
    LET c == Holder(S, u, c0)
    IN  /\ u \in DOMAIN S.active_connections
        /\ c \in Live(S.active_connections[u])
        /\ Live(DictDel(S.active_connections[u], c)) # {}
        /\ u \notin DOMAIN S.user_metadata

\* send_to_user_enhanced, lines 214-216: disconnect every failed connection
RECURSIVE CleanUp(_, _, _)
CleanUp(S, u, disc) ==
    IF disc = <<>> THEN S
    ELSE CleanUp(Disconnect(S, u, Head(disc)), u, Tail(disc))

\* subscribe_to_topic / unsubscribe_from_topic
SubscribeToTopic(S, u, topic) ==
    [S EXCEPT !.subscriptions = Put(@, topic, Get(@, topic, {}) \cup {u})]

\* UnsubscribeFromTopic that only drops a topic left with this one user
UnsubscribeLastOnly(S, u, topic) ==
    IF topic \notin DOMAIN S.subscriptions THEN S
    ELSE IF S.subscriptions[topic] = {u}
    THEN [S EXCEPT !.subscriptions = Del(@, topic)]
    ELSE S

\* UnsubscribeFromTopic without lines 182-183: an emptied topic stays
UnsubscribeKeepTopic(S, u, topic) ==
    IF topic \notin DOMAIN S.subscriptions THEN S
    ELSE [S EXCEPT !.subscriptions[topic] = @ \ {u}]

UnsubscribeFromTopic(S, u, topic) ==
    IF topic \notin DOMAIN S.subscriptions THEN S
    ELSE IF S.subscriptions[topic] \ {u} = {}
    THEN [S EXCEPT !.subscriptions = Del(@, topic)]
    ELSE [S EXCEPT !.subscriptions[topic] = @ \ {u}]

\* HeartbeatResponse that also unregisters a connection of a user who has
\* not answered
HeartbeatResponsePrune(S, u) ==
    LET S1 == [S EXCEPT !.responses = Put(@, u, Get(@, u, 0) + 1)]
        silent == {c \in Registered(S) : S.endpoint[c].user \notin DOMAIN S1.responses}
    IN  IF silent = {} THEN S1
        ELSE LET c == CHOOSE x \in silent : TRUE
             IN  Disconnect(S1, S.endpoint[c].user, c)

\* handle_client_message, lines 553-556: a heartbeat_response refreshes
\* last_activity of the user's metadata and nothing else
HeartbeatResponse(S, u) ==
    [S EXCEPT !.responses = Put(@, u, Get(@, u, 0) + 1)]

\* RejectHandshake that closes with the default code
RejectHandshakeDefaultCode(S) ==
    [S EXCEPT !.rejected = Append(@, 1000)]

\* websocket_endpoint, lines 503-506: no user id, the websocket is closed
\* and the handler returns; connection_id is None in the finally clause
RejectHandshake(S) ==
    [S EXCEPT !.rejected = Append(@, UserIdRequired)]

\* the reply of websocket_endpoint to a message it could not handle
ErrorReply ==
    [message_id |-> 0, user_id |-> 0, error |-> "Invalid message format"]

\* ErrorReplied that ends the handler after the reply
ErrorRepliedThenClosed(S, c) ==
    Disconnect([Write(S, c, ErrorReply) EXCEPT !.endpoint[c].state = "closed"],
               S.endpoint[c].user, c)

\* websocket_endpoint, lines 525-530: the error reply was written, the read
\* loop goes on
ErrorReplied(S, c) ==
    [Write(S, c, ErrorReply) EXCEPT !.endpoint[c].state = "open"]

\* websocket_endpoint, lines 532-537: the write of the error reply raised
\* in the except clause; the handler logs, disconnects and ends
ErrorReplyFailed(S, c) ==
    Disconnect([S EXCEPT !.endpoint[c].state = "closed"],
               S.endpoint[c].user, c)

\* get_connection_stats
GetConnectionStats(S) ==
    [total_users |-> Cardinality(DOMAIN S.active_connections),
     total_connections |->
        Cardinality(UNION {Live(S.active_connections[u]) :
                           u \in DOMAIN S.active_connections}),
     user_connections |-> Cardinality(DOMAIN S.user_connections),
     active_topics |-> Cardinality(DOMAIN S.subscriptions),
     active_users |-> S.active_keys]

\* ------------------------------------------- one coroutine, step by step
\* send_to_user_enhanced, lines 198-202: entry
SendEnter(S, t) ==
    LET f == S.tasks[t]
        S1 == [S EXCEPT !.message_user[f.msg] = f.su]
    IN  IF f.su \in DOMAIN S.active_connections
        THEN SetF(S1, t, [f EXCEPT !.it = NewIter(S, f.su), !.disc = <<>>,
                                   !.pc = "send_next"])
        ELSE SetF(S1, t, [f EXCEPT !.pc = "queue_enter"])

\* SendNext with a `return` after the first successful write
SendNextFirstOnly(S, t) ==
    LET f == S.tasks[t]
        r == IterNext(S, f.it)
    IN  CASE r.kind = "raise" ->
               SetF(S, t, [f EXCEPT !.pc = "raised", !.it = NoIter])
          [] r.kind = "stop" \/ (r.kind = "item" /\ f.wrote # <<>>) ->
               LET S1 == CleanUp(S, f.su, f.disc)
               IN  SetF(S1, t, [S1.tasks[t] EXCEPT
                                   !.removed = @ \cup (Registered(S) \ Registered(S1)),
                                   !.pc = "send_ret",
                                   !.it = NoIter, !.disc = <<>>])
          [] OTHER ->
               IF r.conn \in S.broken
               THEN SetF(S, t, [f EXCEPT !.it = r.it,
                                   !.disc = Append(@, r.conn),
                                   !.failed = @ \cup {r.conn},
                                   !.pc = "send_write"])
               ELSE SetF(Write(S, r.conn, Envelope(S, f.msg)), t,
                         [f EXCEPT !.it = r.it,
                                   !.wrote = Append(@, r.conn),
                                   !.pc = "send_write"])

\* SendNext without the try/except around send_text
SendNextNoCatch(S, t) ==
    LET f == S.tasks[t]
        r == IterNext(S, f.it)
    IN  CASE r.kind = "raise" ->
               SetF(S, t, [f EXCEPT !.pc = "raised", !.it = NoIter])
          [] r.kind = "stop" ->
               SetF(S, t, [f EXCEPT !.pc = "send_ret", !.it = NoIter])
          [] r.kind = "item" ->
               IF r.conn \in S.broken
               THEN SetF(S, t, [f EXCEPT !.failed = @ \cup {r.conn},
                                         !.pc = "raised", !.it = NoIter])
               ELSE SetF(Write(S, r.conn, Envelope(S, f.msg)), t,
                         [f EXCEPT !.it = r.it,
                                   !.wrote = Append(@, r.conn),
                                   !.pc = "send_write"])

\* send_to_user_enhanced, lines 204-216: the next turn of the for loop
SendNext(S, t) ==
    LET f == S.tasks[t]
        r == IterNext(S, f.it)
    IN  CASE r.kind = "raise" ->
               SetF(S, t, [f EXCEPT !.pc = "raised", !.it = NoIter])
          [] r.kind = "stop" ->
               LET S1 == CleanUp(S, f.su, f.disc)
               IN  SetF(S1, t, [S1.tasks[t] EXCEPT
                                   !.removed = @ \cup (Registered(S) \ Registered(S1)),
                                   !.pc = "send_ret",
                                   !.it = NoIter, !.disc = <<>>])
          [] r.kind = "item" ->
               IF r.conn \in S.broken
               THEN SetF(S, t, [f EXCEPT !.it = r.it,
                                   !.disc = Append(@, r.conn),
                                   !.failed = @ \cup {r.conn},
                                   !.pc = "send_write"])
               ELSE SetF(Write(S, r.conn, Envelope(S, f.msg)), t,
                         [f EXCEPT !.it = r.it,
                                   !.wrote = Append(@, r.conn),
                                   !.pc = "send_write"])

\* QueueMessage with insert(0, message) for append(message)
QueueMessageFront(S, t) ==
    LET f == S.tasks[t]
        u == f.su
        appended == <<f.msg>> \o Get(S.message_queue, u, <<>>)
        over == Len(appended) > QueueLimit
    IN  [S EXCEPT
            !.message_queue =
                Put(@, u, IF over THEN LastN(appended, QueueLimit)
                          ELSE appended),
            !.tasks = [IF over THEN DetachList(@, u, appended) ELSE @
                       EXCEPT ![t].rdata = Envelope(S, f.msg),
                              ![t].queued = Append(@, u),
                              ![t].pc = IF S.redis_client THEN "q_lpush"
                                        ELSE "send_ret"]]

\* QueueMessage with [:100] for [-100:]
QueueMessageKeepOldest(S, t) ==
    LET f == S.tasks[t]
        u == f.su
        appended == Append(Get(S.message_queue, u, <<>>), f.msg)
        over == Len(appended) > QueueLimit
    IN  [S EXCEPT
            !.message_queue =
                Put(@, u, IF over THEN FirstN(appended, QueueLimit)
                          ELSE appended),
            !.tasks = [IF over THEN DetachList(@, u, appended) ELSE @
                       EXCEPT ![t].rdata = Envelope(S, f.msg),
                              ![t].queued = Append(@, u),
                              ![t].pc = IF S.redis_client THEN "q_lpush"
                                        ELSE "send_ret"]]

\* _queue_message, lines 229-243: up to the call of lpush
QueueMessage(S, t) ==
    LET f == S.tasks[t]
        u == f.su
        appended == Append(Get(S.message_queue, u, <<>>), f.msg)
        over == Len(appended) > QueueLimit
    IN  [S EXCEPT
            !.message_queue =
                Put(@, u, IF over THEN LastN(appended, QueueLimit)
                          ELSE appended),
            !.tasks = [IF over THEN DetachList(@, u, appended) ELSE @
                       EXCEPT ![t].rdata = Envelope(S, f.msg),
                              ![t].queued = Append(@, u),
                              ![t].pc = IF S.redis_client THEN "q_lpush"
                                        ELSE "send_ret"]]

\* QueueFailed that lets the exception of the Redis call leave _queue_message
QueueFailedNoCatch(S, t, call) ==
    SetF(S, t, [S.tasks[t] EXCEPT !.rdata = NoEnvelope,
                                  !.rfailed = @ \cup {call},
                                  !.pc = "raised"])

\* _queue_message, lines 246-247: lpush or ltrim raised, the error is logged
QueueFailed(S, t, call) ==
    SetF(S, t, [S.tasks[t] EXCEPT !.rdata = NoEnvelope,
                                  !.rfailed = @ \cup {call},
                                  !.pc = "send_ret"])

\* the return of send_to_user_enhanced to its caller
SendReturn(S, t) ==
    LET f == S.tasks[t]
    IN  SetF(S, t, [f EXCEPT !.result = None,
                             !.pc = IF f.op \in {"topic", "broadcast"}
                                    THEN "fan_next"
                                    ELSE IF f.op = "notify"
                                    THEN (IF f.topic = "" THEN "notify_topic"
                                          ELSE "fan_next")
                                    ELSE "done"])

\* notify_robot_connected, line 387: send_to_topic("robots", message) with
\* the message object already sent to the user; the subscriber set is copied
\* now (line 224) and iterated in the order the frame carries
NotifyTopic(S, t) ==
    LET f == S.tasks[t]
        subs == Get(S.subscriptions, "robots", {})
        Subscribed(u) == u \in subs
    IN  SetF(S, t, [f EXCEPT !.topic = "robots",
                             !.subs0 = {u \in Users :
                                          <<u, "robots">> \in S.subscribed},
                             !.todo = SelectSeq(@, Subscribed),
                             !.pc = "fan_next"])

\* FanNext with a `break` once a write of the fan-out has failed
FanNextUntilFailure(S, t) ==
    LET f == S.tasks[t]
    IN  IF f.todo = <<>> \/ f.failed # {}
        THEN SetF(S, t, [f EXCEPT !.pc = "done"])
        ELSE SetF(S, t, [f EXCEPT !.su = Head(f.todo), !.todo = Tail(f.todo),
                                  !.sent = Append(@, Head(f.todo)),
                                  !.pc = "send_enter"])

\* FanNext with send_to_topic iterating self.subscriptions[topic] itself: a
\* set that changed size during the loop raises RuntimeError
FanNextLive(S, t) ==
    LET f == S.tasks[t]
    IN  IF /\ f.op = "topic"
           /\ Cardinality(Get(S.subscriptions, f.topic, {}))
                # Len(f.sent) + Len(f.todo)
        THEN SetF(S, t, [f EXCEPT !.pc = "raised"])
        ELSE IF f.todo = <<>> THEN SetF(S, t, [f EXCEPT !.pc = "done"])
        ELSE SetF(S, t, [f EXCEPT !.su = Head(f.todo), !.todo = Tail(f.todo),
                                  !.sent = Append(@, Head(f.todo)),
                                  !.pc = "send_enter"])

\* send_to_topic, line 224-225, and broadcast_enhanced, lines 301-302:
\* the next turn of the loop over the copied users
FanNext(S, t) ==
    LET f == S.tasks[t]
    IN  IF f.todo = <<>> THEN SetF(S, t, [f EXCEPT !.pc = "done"])
        ELSE SetF(S, t, [f EXCEPT !.su = Head(f.todo), !.todo = Tail(f.todo),
                                  !.sent = Append(@, Head(f.todo)),
                                  !.pc = "send_enter"])

\* _send_queued_messages, line 252
ReplayEnter(S, t) ==
    LET f == S.tasks[t]
    IN  IF f.user \in DOMAIN S.message_queue
        THEN SetF(S, t, [f EXCEPT !.qi = 0, !.qattached = TRUE,
                                  !.q0 = S.message_queue[f.user],
                                  !.pc = "replay_msg"])
        ELSE SetF(S, t, [f EXCEPT !.pc = "replay_redis"])

\* ReplayMsg iterating reversed(self.message_queue[user_id])
ReplayMsgNewestFirst(S, t) ==
    LET f == S.tasks[t]
        items == Reverse(IF f.qattached THEN S.message_queue[f.user]
                         ELSE f.qitems)
    IN  IF f.qi >= Len(items)
        THEN SetF(S, t, [f EXCEPT !.it = NoIter, !.pc = "replay_del"])
        ELSE IF f.user \in DOMAIN S.active_connections
        THEN SetF(S, t, [f EXCEPT !.qi = @ + 1, !.rmsg = items[f.qi + 1],
                                  !.it = NewIter(S, f.user),
                                  !.pc = "replay_conn"])
        ELSE SetF(S, t, [f EXCEPT !.qi = @ + 1, !.rmsg = items[f.qi + 1],
                                  !.it = NoIter])

\* _send_queued_messages, lines 253-256: the next queued message
ReplayMsg(S, t) ==
    LET f == S.tasks[t]
        items == IF f.qattached THEN S.message_queue[f.user] ELSE f.qitems
    IN  IF f.qi >= Len(items)
        THEN SetF(S, t, [f EXCEPT !.it = NoIter, !.pc = "replay_del"])
        ELSE IF f.user \in DOMAIN S.active_connections
        THEN SetF(S, t, [f EXCEPT !.qi = @ + 1, !.rmsg = items[f.qi + 1],
                                  !.it = NewIter(S, f.user),
                                  !.pc = "replay_conn"])
        ELSE SetF(S, t, [f EXCEPT !.qi = @ + 1, !.rmsg = items[f.qi + 1],
                                  !.it = NoIter])

\* _send_queued_messages, lines 256-259: the next connection; an exception
\* (of the iterator, or of the write) ends the turn for this message
ReplayConn(S, t) ==
    LET f == S.tasks[t]
        r == IterNext(S, f.it)
    IN  IF r.kind # "item"
        THEN SetF(S, t, [f EXCEPT !.it = NoIter, !.pc = "replay_msg"])
        ELSE IF r.conn \in S.broken
        THEN SetF(S, t, [f EXCEPT !.it = r.it, !.werr = TRUE,
                                  !.failed = @ \cup {r.conn},
                                  !.pc = "replay_write"])
        ELSE SetF(Write(S, r.conn, Envelope(S, f.rmsg)), t,
                  [f EXCEPT !.it = r.it, !.werr = FALSE,
                            !.replayed = Append(@, [conn |-> r.conn,
                                                    id |-> f.rmsg]),
                            !.pc = "replay_write"])

\* ReplayDel without line 262: the replayed queue stays
ReplayDelKeep(S, t) ==
    LET f == S.tasks[t]
    IN  SetF(S, t, [f EXCEPT !.qattached = FALSE, !.qitems = <<>>,
                             !.qi = 0, !.rmsg = 0, !.pc = "replay_redis"])

\* _send_queued_messages, line 262: del self.message_queue[user_id]
\* (KeyError when another replay deleted it first)
ReplayDel(S, t) ==
    LET f == S.tasks[t]
    IN  IF f.user \notin DOMAIN S.message_queue
        THEN SetF(S, t, [f EXCEPT !.qattached = FALSE, !.qitems = <<>>,
                                  !.pc = "raised"])
        ELSE [S EXCEPT
                !.message_queue = Del(@, f.user),
                !.tasks = [DetachList(@, f.user, S.message_queue[f.user])
                           EXCEPT ![t].qattached = FALSE,
                                  ![t].qitems = <<>>, ![t].qi = 0,
                                  ![t].rmsg = 0,
                                  ![t].pc = "replay_redis"]]

\* _send_queued_messages, line 265
ReplayRedis(S, t) ==
    LET f == S.tasks[t]
    IN  SetF(S, t, [f EXCEPT !.pc = IF S.redis_client THEN "rd_lrange"
                                     ELSE "confirm"])

\* _send_queued_messages, lines 270-273: the next Redis item
RedisMsg(S, t) ==
    LET f == S.tasks[t]
    IN  IF f.rlist = <<>>
        THEN SetF(S, t, [f EXCEPT !.it = NoIter, !.rdata = NoEnvelope,
                                  !.pc = "rd_delete"])
        ELSE IF f.user \in DOMAIN S.active_connections
        THEN SetF(S, t, [f EXCEPT !.rdata = Head(f.rlist),
                                  !.rlist = Tail(f.rlist),
                                  !.it = NewIter(S, f.user),
                                  !.pc = "rd_conn"])
        ELSE SetF(S, t, [f EXCEPT !.rdata = Head(f.rlist),
                                  !.rlist = Tail(f.rlist), !.it = NoIter])

\* _send_queued_messages, lines 274-277
RedisConn(S, t) ==
    LET f == S.tasks[t]
        r == IterNext(S, f.it)
    IN  IF r.kind # "item"
        THEN SetF(S, t, [f EXCEPT !.it = NoIter, !.pc = "rd_msg"])
        ELSE IF r.conn \in S.broken
        THEN SetF(S, t, [f EXCEPT !.it = r.it, !.werr = TRUE,
                                  !.failed = @ \cup {r.conn},
                                  !.pc = "rd_write"])
        ELSE SetF(Write(S, r.conn, f.rdata), t,
                  [f EXCEPT !.it = r.it, !.werr = FALSE,
                            !.replayed = Append(@, [conn |-> r.conn,
                                                    id |-> f.rdata.message_id]),
                            !.pc = "rd_write"])

\* json.dumps(message) of a legacy dict message: it carries no message id
LegacyMessage == [message_id |-> 0, user_id |-> 0]

\* send_to_user, lines 295-297, with send_personal_message, lines 190-194:
\* the next connection id of the user's legacy list.  The connection is
\* looked up in the live dicts and written; nothing catches a failing write.
SendToUserNext(S, t) ==
    LET f == S.tasks[t]
        ids == IF f.lattached THEN S.user_connections[f.user] ELSE <<>>
    IN  IF f.li >= Len(ids)
        THEN SetF(S, t, [f EXCEPT !.pc = "req_ret"])
        ELSE LET c == ids[f.li + 1]
             IN  IF c \notin Registered(S)
                 THEN SetF(S, t, [f EXCEPT !.li = @ + 1])
                 ELSE IF c \in S.broken
                 THEN SetF(S, t, [f EXCEPT !.li = @ + 1, !.werr = TRUE,
                                           !.failed = @ \cup {c},
                                           !.pc = "legacy_write"])
                 ELSE SetF(Write(S, c, LegacyMessage), t,
                           [f EXCEPT !.li = @ + 1, !.werr = FALSE,
                                     !.wrote = Append(@, c),
                                     !.pc = "legacy_write"])

\* robots.py: the request handler returns its result (lines 158, 208, 271)
RequestReturn(S, t) ==
    LET f == S.tasks[t]
    IN  SetF(S, t, [f EXCEPT !.http = IF f.op = "robot_disconnect" THEN 200
                                      ELSE 201,
                             !.pc = "done"])

\* robots.py: the exception of the notification reaches the handler.
\* send_robot_command (lines 261-269) and connect_to_robot (lines 148-156)
\* catch it, mark the command failed / the connection in error and answer
\* 500; disconnect_robot (lines 203-206) lets it through.
RequestFailed(S, t) ==
    LET f == S.tasks[t]
    IN  SetF(S, t, [f EXCEPT
            !.status = CASE f.op = "robot_command" -> "failed"
                         [] f.op = "robot_connect" -> "error"
                         [] OTHER -> @,
            !.http = 500,
            !.pc = "done"])

\* Confirm that returns the connection id without sending the confirmation
ConfirmSkipped(S, t) ==
    SetF(S, t, [S.tasks[t] EXCEPT !.pc = "done"])

\* connect, lines 136-139: the USER_CONNECTED message; the message object of
\* connection c is named -c
Confirm(S, t) ==
    LET f == S.tasks[t]
    IN  [S EXCEPT !.message_user = Put(@, 0 - f.conn, 0),
                  !.tasks[t] = [f EXCEPT !.msg = 0 - f.conn, !.su = f.user,
                                         !.pc = "send_enter"]]

\* disconnect_all, lines 343-351: every registered websocket is collected;
\* gather(close...) is awaited only when there is one
DisconnectAllEnter(S, t) ==
    SetF(S, t, [S.tasks[t] EXCEPT
                  !.conns0 = Registered(S),
                  !.pc = IF Registered(S) = {} THEN "shut_clear"
                         ELSE "closing"])

\* disconnect_all, lines 353-358
DisconnectAllClear(S, t) ==
    [S EXCEPT
        !.active_keys = <<>>,
        !.active_connections = <<>>,
        !.user_connections = <<>>,
        !.user_metadata = <<>>,
        !.subscriptions = [x \in {} |-> {}],
        !.subscribed = {},
        !.message_queue = <<>>,
        !.tasks = [DetachAll(S) EXCEPT
                     ![t].removed = Registered(S),
                     ![t].pc = "done"]]

\* the places where a coroutine is suspended, or has ended
WaitPcs == {"idle", "done", "raised", "accept", "send_write", "q_lpush",
            "q_ltrim", "replay_write", "rd_lrange", "rd_write", "rd_delete",
            "legacy_write", "closing"}

Step(S, t) ==
    LET pc == S.tasks[t].pc
    IN  CASE pc = "send_enter" -> SendEnter(S, t)
          [] pc = "send_next" -> SendNext(S, t)
          [] pc = "queue_enter" -> QueueMessage(S, t)
          [] pc = "send_ret" -> SendReturn(S, t)
          [] pc = "fan_next" -> FanNext(S, t)
          [] pc = "notify_topic" -> NotifyTopic(S, t)
          [] pc = "replay_enter" -> ReplayEnter(S, t)
          [] pc = "replay_msg" -> ReplayMsg(S, t)
          [] pc = "replay_conn" -> ReplayConn(S, t)
          [] pc = "replay_del" -> ReplayDel(S, t)
          [] pc = "replay_redis" -> ReplayRedis(S, t)
          [] pc = "rd_msg" -> RedisMsg(S, t)
          [] pc = "rd_conn" -> RedisConn(S, t)
          [] pc = "confirm" -> Confirm(S, t)
          [] pc = "legacy_next" -> SendToUserNext(S, t)
          [] pc = "req_ret" -> RequestReturn(S, t)
          [] pc = "req_failed" -> RequestFailed(S, t)
          [] pc = "shut_enter" -> DisconnectAllEnter(S, t)
          [] pc = "shut_clear" -> DisconnectAllClear(S, t)

\* the coroutine runs on to its next suspension point
RECURSIVE Run(_, _)
Run(S, t) == IF S.tasks[t].pc \in WaitPcs THEN S ELSE Run(Step(S, t), t)

\* ---------------------------------------------------------------- actions
\* What belongs to user u: the connection dict, the queue and its mirror,
\* and what the user's sockets were sent.
UserView(S, u) ==
    <<Get(S.active_connections, u, <<>>), Get(S.message_queue, u, <<>>),
      Get(S.redis_store, u, <<>>),
      [c \in {x \in DOMAIN endpoint : endpoint[x].user = u} |-> S.wire[c]]>>

\* Manager code ran as task t (0: a handler that never suspends) and led to
\* S: a call in flight is no longer on its own once another coroutine
\* changed something of its user (of any user, for a fan-out).
Ran(S, t) ==
    [S EXCEPT !.tasks =
        [x \in Tasks |->
            IF /\ x # t
               /\ S.tasks[x].pc \notin {"idle", "done", "raised"}
               /\ \E u \in (IF S.tasks[x].user = 0 THEN Users
                            ELSE {S.tasks[x].user}) :
                     UserView(S, u) # UserView(Cur, u)
            THEN [S.tasks[x] EXCEPT !.solo = FALSE]
            ELSE S.tasks[x]]]

Commit(S) ==
    /\ active_keys' = S.active_keys
    /\ active_connections' = S.active_connections
    /\ user_connections' = S.user_connections
    /\ user_metadata' = S.user_metadata
    /\ subscriptions' = S.subscriptions
    /\ message_queue' = S.message_queue
    /\ redis_client' = S.redis_client
    /\ redis_store' = S.redis_store
    /\ message_user' = S.message_user
    /\ wire' = S.wire
    /\ broken' = S.broken
    /\ stalled' = S.stalled
    /\ endpoint' = S.endpoint
    /\ next_conn' = S.next_conn
    /\ next_msg' = S.next_msg
    /\ budget' = S.budget
    /\ msg_budget' = S.msg_budget
    /\ users_seen' = S.users_seen
    /\ subscribed' = S.subscribed
    /\ drained' = S.drained
    /\ responses' = S.responses
    /\ rejected' = S.rejected
    /\ restarts' = S.restarts
    /\ lost_queue' = S.lost_queue
    /\ heartbeat' = S.heartbeat
    /\ tasks' = S.tasks

Done(S, t) == Commit(Ran(S, t))

\* A call that ended returns to its caller at once: nothing else runs between
\* its last statement and its return.
Settled == \A t \in Tasks : tasks[t].pc \notin {"done", "raised"}

\* a new call takes the first free task
Free(t) ==
    /\ Settled
    /\ tasks[t].pc = "idle"
    /\ \A x \in Tasks : x < t => tasks[x].pc # "idle"

\* User ids are interchangeable: a run names its users in the order in which
\* they first appear.
Known(u) == u <= users_seen + 1
Seen(u) == IF u > users_seen THEN u ELSE users_seen

Resume(t, pc) == SetF(Cur, t, [tasks[t] EXCEPT !.pc = pc])

\* initialize(): settings.REDIS_URL is set and the ping succeeds
Initialize ==
    /\ ~redis_client
    /\ next_conn = 1 /\ next_msg = 1 /\ users_seen = 0 /\ budget = MaxCalls
    /\ \A t \in Tasks : tasks[t].pc = "idle"
    /\ Commit([Cur EXCEPT !.redis_client = TRUE])

\* websocket_endpoint, line 512: connect() up to `await websocket.accept()`
Connect(t, u) ==
    /\ Free(t)
    /\ Known(u)
    /\ budget > 0
    /\ next_conn + Cardinality({x \in Tasks : tasks[x].pc = "accept"}) <= MaxConn
    /\ Done(SetF([Cur EXCEPT !.budget = @ - 1, !.users_seen = Seen(u)],
                 t, [IdleFrame EXCEPT !.op = "connect", !.user = u,
                                      !.pc = "accept"]), t)

\* connect(websocket, user_id, connection_id) with an id the caller chose,
\* as /ws/connect passes its user_id query parameter: an id some connection
\* already has, or one of the caller's own
ConnectWithId(t, u, connection_id) ==
    /\ Free(t)
    /\ Known(u)
    /\ budget > 0
    /\ next_conn + Cardinality({x \in Tasks : tasks[x].pc = "accept"}) <= MaxConn
    /\ connection_id \in {endpoint[c].conn : c \in DOMAIN endpoint} \cup ClientIds
    /\ Done(SetF([Cur EXCEPT !.budget = @ - 1, !.users_seen = Seen(u)],
                 t, [IdleFrame EXCEPT !.op = "connect", !.user = u,
                                      !.cid = connection_id,
                                      !.pc = "accept"]), t)

\* accept() returns: registration, then the replay up to its first write
ConnectAccepted(t) ==
    /\ Settled
    /\ tasks[t].pc = "accept"
    /\ Done(Run(Register(Cur, t), t), t)

\* a producer calls send_to_user_enhanced(u, NotificationMessage(..))
SendToUserEnhanced(t, u) ==
    /\ Free(t)
    /\ Known(u)
    /\ budget > 0
    /\ msg_budget > 0
    /\ Done(Run([Cur EXCEPT
            !.message_user = Put(@, next_msg, 0),
            !.next_msg = @ + 1,
            !.budget = @ - 1,
            !.msg_budget = @ - 1,
            !.users_seen = Seen(u),
            !.tasks[t] = [IdleFrame EXCEPT
                !.op = "send", !.user = u, !.su = u, !.msg = next_msg,
                !.present0 = u \in DOMAIN active_connections,
                !.conns0 = Live(Get(active_connections, u, <<>>)),
                !.pc = "send_enter"]], t), t)

\* a producer calls send_to_topic(topic, NotificationMessage(..)); the copy
\* of the subscriber set is iterated in some order
SendToTopic(t, topic) ==
    /\ Free(t)
    /\ budget > 0
    /\ msg_budget > 0
    /\ \E order \in Orders(Get(subscriptions, topic, {})) :
        Done(Run([Cur EXCEPT
            !.message_user = Put(@, next_msg, 0),
            !.next_msg = @ + 1,
            !.budget = @ - 1,
            !.msg_budget = @ - 1,
            !.tasks[t] = [IdleFrame EXCEPT
                !.op = "topic", !.topic = topic, !.msg = next_msg,
                !.subs0 = {u \in Users : <<u, topic>> \in subscribed},
                !.todo = order, !.pc = "fan_next"]], t), t)

\* a producer calls notify_robot_connected(u, ..), lines 381-387: one
\* NotificationMessage, sent to u and then to the topic "robots"
NotifyRobotConnected(t, u) ==
    /\ Free(t)
    /\ Known(u)
    /\ budget > 0
    /\ msg_budget > 0
    /\ \E order \in Orders(Users) :
        Done(Run([Cur EXCEPT
            !.message_user = Put(@, next_msg, 0),
            !.next_msg = @ + 1,
            !.budget = @ - 1,
            !.msg_budget = @ - 1,
            !.users_seen = Seen(u),
            !.tasks[t] = [IdleFrame EXCEPT
                !.op = "notify", !.su = u, !.msg = next_msg,
                !.sent = <<u>>, !.todo = order,
                !.pc = "send_enter"]], t), t)

\* a producer calls broadcast_enhanced(NotificationMessage(..)); send_heartbeat,
\* lines 285-291, is this call with a fresh HEARTBEAT message
BroadcastEnhanced(t) ==
    /\ Free(t)
    /\ budget > 0
    /\ msg_budget > 0
    /\ Done(Run([Cur EXCEPT
            !.message_user = Put(@, next_msg, 0),
            !.next_msg = @ + 1,
            !.budget = @ - 1,
            !.msg_budget = @ - 1,
            !.tasks[t] = [IdleFrame EXCEPT
                !.op = "broadcast", !.msg = next_msg,
                !.conns0 = Registered(Cur),
                !.todo = active_keys, !.pc = "fan_next"]], t), t)

\* start_heartbeat_task, lines 564-566: the loop calls send_heartbeat, which
\* is broadcast_enhanced with a fresh HEARTBEAT message (lines 285-291)
SendHeartbeat(t) ==
    Done(Run([Cur EXCEPT
            !.message_user = Put(@, next_msg, 0),
            !.next_msg = @ + 1,
            !.heartbeat = [@ EXCEPT !.state = "calling", !.task = t,
                                    !.beats = @ + 1],
            !.tasks[t] = [IdleFrame EXCEPT
                !.op = "broadcast", !.msg = next_msg,
                !.conns0 = Registered(Cur),
                !.todo = active_keys, !.pc = "fan_next"]], t), t)

\* the heartbeat task is started
StartHeartbeatTask(t) ==
    /\ Free(t)
    /\ heartbeat.state = "off"
    /\ SendHeartbeat(t)

\* the sleep of the loop is over and a frame is there for its next call
SleepCompleted(t) ==
    /\ Free(t)
    /\ heartbeat.state \in {"sleep30", "sleep5"}
    /\ heartbeat.beats < MaxBeats

\* start_heartbeat_task, lines 567 and 570: asyncio.sleep returns, and the
\* loop goes round
HeartbeatWake(t) ==
    /\ SleepCompleted(t)
    /\ SendHeartbeat(t)

\* `await websocket.send_text(..)` of send_to_user_enhanced returns
SendWritten(t) ==
    /\ Settled
    /\ tasks[t].pc = "send_write"
    /\ tasks[t].it.cur \notin stalled
    /\ Done(Run(Resume(t, "send_next"), t), t)

\* `await self.redis_client.lpush(..)` of _queue_message is carried out
QueueLpush(t) ==
    /\ Settled
    /\ tasks[t].pc = "q_lpush"
    /\ Done(SetF([Cur EXCEPT !.redis_store =
                       Put(@, tasks[t].su,
                           <<tasks[t].rdata>> \o Get(@, tasks[t].su, <<>>))],
                   t, [tasks[t] EXCEPT !.rdata = NoEnvelope,
                                       !.pc = "q_ltrim"]), t)

\* `await self.redis_client.ltrim(key, 0, 99)` is carried out
QueueLtrim(t) ==
    /\ Settled
    /\ tasks[t].pc = "q_ltrim"
    /\ Done(Run(
         SetF([Cur EXCEPT !.redis_store =
                  IF tasks[t].su \in DOMAIN @
                  THEN Put(@, tasks[t].su, FirstN(@[tasks[t].su], QueueLimit))
                  ELSE @],
              t, [tasks[t] EXCEPT !.pc = "send_ret"]), t), t)

\* `await self.redis_client.lpush(..)` raises: Redis cannot be reached
QueueLpushRaises(t) ==
    /\ Settled
    /\ tasks[t].pc = "q_lpush"
    /\ Done(Run(QueueFailed(Cur, t, "lpush"), t), t)

\* `await self.redis_client.ltrim(..)` raises
QueueLtrimRaises(t) ==
    /\ Settled
    /\ tasks[t].pc = "q_ltrim"
    /\ Done(Run(QueueFailed(Cur, t, "ltrim"), t), t)

\* `await websocket.send_text(..)` of the in-memory replay returns or raises
ReplayWritten(t) ==
    /\ Settled
    /\ tasks[t].pc = "replay_write"
    /\ tasks[t].it.cur \notin stalled
    /\ Done(Run(Resume(t, IF tasks[t].werr THEN "replay_msg"
                            ELSE "replay_conn"), t), t)

\* `await self.redis_client.lrange(queue_key, 0, -1)` is carried out
RedisLrange(t) ==
    /\ Settled
    /\ tasks[t].pc = "rd_lrange"
    /\ Done(Run(SetF(Cur, t,
            [tasks[t] EXCEPT
                !.rlist = Reverse(Get(redis_store, tasks[t].user, <<>>)),
                !.pc = "rd_msg"]), t), t)

\* `await websocket.send_text(message_data)` of the Redis replay returns
RedisWritten(t) ==
    /\ Settled
    /\ tasks[t].pc = "rd_write"
    /\ tasks[t].it.cur \notin stalled
    /\ Done(Run(Resume(t, IF tasks[t].werr THEN "rd_msg" ELSE "rd_conn"),
                  t), t)

\* `await self.redis_client.delete(queue_key)` is carried out
RedisDelete(t) ==
    /\ Settled
    /\ tasks[t].pc = "rd_delete"
    /\ Done(Run(SetF([Cur EXCEPT !.redis_store = Del(@, tasks[t].user)],
                       t, [tasks[t] EXCEPT !.pc = "confirm"]), t), t)

\* robots.py: a request of user u whose business part succeeds (the robot is
\* connected, robot_service does its part, the status is committed), up to
\* the notification by websocket_manager.send_to_user(message, u)
RobotRequest(t, u, op, status) ==
    /\ Free(t)
    /\ Known(u)
    /\ budget > 0
    /\ Done(Run([Cur EXCEPT
            !.budget = @ - 1,
            !.users_seen = Seen(u),
            !.tasks[t] = [IdleFrame EXCEPT
                !.op = op, !.user = u, !.status = status,
                !.present0 = u \in DOMAIN active_connections,
                !.conns0 = Live(Get(active_connections, u, <<>>)),
                !.lattached = u \in DOMAIN user_connections,
                !.pc = "legacy_next"]], t), t)

\* POST /commands, lines 246-259
SendRobotCommand(t, u) == RobotRequest(t, u, "robot_command", "executing")

\* POST /connect, lines 133-146
ConnectToRobot(t, u) == RobotRequest(t, u, "robot_connect", "connected")

\* POST /connections/{connection_id}/disconnect, lines 195-206
DisconnectRobot(t, u) == RobotRequest(t, u, "robot_disconnect", "disconnected")

\* `await websocket.send_text(..)` of send_personal_message returns or raises
LegacyWritten(t) ==
    /\ Settled
    /\ tasks[t].pc = "legacy_write"
    /\ Done(Run(Resume(t, IF tasks[t].werr THEN "req_failed"
                            ELSE "legacy_next"), t), t)

\* main.py, lifespan, line 25: the application shuts down and awaits
\* websocket_manager.disconnect_all()
DisconnectAll(t) ==
    /\ Free(t)
    /\ budget > 0
    /\ Done(Run([Cur EXCEPT
            !.budget = @ - 1,
            !.tasks[t] = [IdleFrame EXCEPT !.op = "shutdown",
                                           !.pc = "shut_enter"]], t), t)

\* `await asyncio.gather(*[websocket.close() ...], return_exceptions=True)`
\* returns: the collected websockets are closed, their writes raise from now
ClosesDone(t) ==
    /\ Settled
    /\ tasks[t].pc = "closing"
    /\ Done(Run(SetF([Cur EXCEPT !.broken = @ \cup tasks[t].conns0],
                      t, [tasks[t] EXCEPT !.pc = "shut_clear"]), t), t)

\* start_heartbeat_task, lines 566-570: send_heartbeat returned and the loop
\* sleeps 30 seconds, or it raised, the except clause caught it, and the loop
\* sleeps 5 seconds
HeartbeatReturned(hb, t, pc) ==
    IF hb.task # t THEN hb
    ELSE [hb EXCEPT !.task = 0,
                    !.state = IF pc = "done" THEN "sleep30" ELSE "sleep5",
                    !.errors = IF pc = "done" THEN @ ELSE @ + 1]

\* The call is over.  websocket_endpoint, lines 512-537: a connect() that
\* returned leaves the handler in its read loop; one that raised leaves
\* connection_id None, and the handler ends without disconnect().
Return(t) ==
    /\ tasks[t].pc \in {"done", "raised"}
    /\ Commit(SetF([Cur EXCEPT
                       !.endpoint =
                           IF tasks[t].op = "connect"
                           THEN [@ EXCEPT ![tasks[t].conn].state =
                                   IF tasks[t].pc = "done" THEN "open"
                                   ELSE "closed"]
                           ELSE @,
                       !.drained = @ \cup {tasks[t].replayed[i].id :
                                              i \in DOMAIN tasks[t].replayed},
                       !.heartbeat = HeartbeatReturned(@, t, tasks[t].pc)],
                    t, IdleFrame))

HasOpenEndpoint(u) ==
    \E c \in DOMAIN endpoint :
        endpoint[c].user = u /\ endpoint[c].state = "open"

\* handle_client_message: {"type": "subscribe", "topic": topic}
Subscribe(u, topic) ==
    /\ Settled
    /\ HasOpenEndpoint(u)
    /\ u \notin Get(subscriptions, topic, {})
    /\ Done(SubscribeToTopic([Cur EXCEPT !.subscribed = @ \cup {<<u, topic>>}],
                              u, topic), 0)

\* handle_client_message: {"type": "unsubscribe", "topic": topic}
Unsubscribe(u, topic) ==
    /\ Settled
    /\ HasOpenEndpoint(u)
    /\ <<u, topic>> \in subscribed
    /\ Done(UnsubscribeFromTopic([Cur EXCEPT !.subscribed = @ \ {<<u, topic>>}],
                                  u, topic), 0)

\* handle_client_message: {"type": "heartbeat_response"}
ClientHeartbeatResponse(u) ==
    /\ Settled
    /\ HasOpenEndpoint(u)
    /\ Get(responses, u, 0) < MaxResponses
    /\ Done(HeartbeatResponse(Cur, u), 0)

\* websocket_endpoint is called with an empty user_id
EndpointNoUser ==
    /\ Settled
    /\ Len(rejected) < MaxRejects
    /\ Commit(RejectHandshake(Cur))

\* websocket_endpoint, lines 516-527: the client of c sends a payload that
\* json.loads or handle_client_message raises on; the handler awaits the
\* send_text of its error reply
ClientMalformed(c) ==
    /\ Settled
    /\ c \in DOMAIN endpoint
    /\ endpoint[c].state = "open"
    /\ budget > 0
    /\ Commit([Cur EXCEPT !.budget = @ - 1,
                           !.endpoint[c].state = "replying"])

\* the send_text of the error reply returns or raises
ErrorReplyWritten(c) ==
    /\ Settled
    /\ c \in DOMAIN endpoint
    /\ endpoint[c].state = "replying"
    /\ c \notin stalled
    /\ Done(IF c \in broken THEN ErrorReplyFailed(Cur, c)
             ELSE ErrorReplied(Cur, c), 0)

\* websocket_endpoint, lines 523-537: the client is gone (WebSocketDisconnect
\* in the read loop), and the finally clause disconnects; a write pending on
\* the closed socket raises
EndpointDisconnect(c) ==
    /\ Settled
    /\ c \in DOMAIN endpoint
    /\ endpoint[c].state = "open"
    /\ Done(Disconnect([Cur EXCEPT !.endpoint[c].state = "closed",
                                     !.broken = @ \cup {c},
                                     !.stalled = @ \ {c}],
                         endpoint[c].user, c), 0)

\* the transport of a registered connection fails: its writes raise from now
Break(c) ==
    /\ Settled
    /\ c \in DOMAIN endpoint
    /\ endpoint[c].state # "closed"
    /\ c \notin broken
    /\ Cardinality({x \in broken : endpoint[x].state # "closed"}) < MaxBreak
    /\ Commit([Cur EXCEPT !.broken = @ \cup {c}])

\* the peer of a registered connection stops reading: from now on a
\* send_text on it does not complete
Stall(c) ==
    /\ Settled
    /\ c \in DOMAIN endpoint
    /\ endpoint[c].state = "open"
    /\ c \notin broken
    /\ stalled = {}
    /\ Commit([Cur EXCEPT !.stalled = @ \cup {c}])

\* The process stops between two calls and is started again: a new
\* ConnectionManager (__init__, lines 77-89) with empty maps, and initialize()
\* with the same settings.  The sockets of the old process are gone; what
\* Redis holds stays.
Restart ==
    /\ \A t \in Tasks : tasks[t].pc = "idle"
    /\ restarts < MaxRestarts
    /\ Commit([Cur EXCEPT
            !.active_keys = <<>>,
            !.active_connections = <<>>,
            !.user_connections = <<>>,
            !.user_metadata = <<>>,
            !.subscriptions = [x \in {} |-> {}],
            !.subscribed = {},
            !.message_queue = <<>>,
            !.lost_queue = message_queue,
            !.broken = DOMAIN endpoint,
            !.endpoint = [c \in DOMAIN endpoint |->
                             [endpoint[c] EXCEPT !.state = "closed"]],
            !.restarts = @ + 1])

\* --------------------------------------------------------- specification
InitWith(n, k, queues) ==
    /\ active_keys = <<>>
    /\ active_connections = <<>>
    /\ user_connections = <<>>
    /\ user_metadata = <<>>
    /\ subscriptions = [x \in {} |-> {}]
    /\ message_queue = queues
    /\ redis_client = FALSE
    /\ redis_store = <<>>
    /\ message_user = [m \in UNION {Range(queues[u]) : u \in DOMAIN queues}
                         |-> CHOOSE u \in DOMAIN queues : m \in Range(queues[u])]
    /\ wire = <<>>
    /\ broken = {}
    /\ stalled = {}
    /\ endpoint = <<>>
    /\ next_conn = 1
    /\ next_msg = 1 + Cardinality(UNION {Range(queues[u]) : u \in DOMAIN queues})
    /\ budget = n
    /\ msg_budget = k
    /\ users_seen = Cardinality(DOMAIN queues)
    /\ subscribed = {}
    /\ drained = {}
    /\ responses = <<>>
    /\ rejected = <<>>
    /\ restarts = 0
    /\ lost_queue = <<>>
    /\ heartbeat = NoHeartbeat
    /\ tasks = [t \in Tasks |-> IdleFrame]

\* __init__
Init == InitWith(MaxCalls, MaxMsg, <<>>)

Next ==
    \/ Initialize
    \/ \E t \in Tasks, u \in Users : Connect(t, u)
    \/ \E t \in Tasks : ConnectAccepted(t)
    \/ \E t \in Tasks, u \in Users : SendToUserEnhanced(t, u)
    \/ \E t \in Tasks, topic \in Topics : SendToTopic(t, topic)
    \/ \E t \in Tasks : BroadcastEnhanced(t)
    \/ \E t \in Tasks : SendWritten(t)
    \/ \E t \in Tasks : QueueLpush(t)
    \/ \E t \in Tasks : QueueLtrim(t)
    \/ \E t \in Tasks : ReplayWritten(t)
    \/ \E t \in Tasks : RedisLrange(t)
    \/ \E t \in Tasks : RedisWritten(t)
    \/ \E t \in Tasks : RedisDelete(t)
    \/ \E t \in Tasks : Return(t)
    \/ \E u \in Users, topic \in Topics : Subscribe(u, topic)
    \/ \E u \in Users, topic \in Topics : Unsubscribe(u, topic)
    \/ \E c \in DOMAIN endpoint : EndpointDisconnect(c)
    \/ \E c \in DOMAIN endpoint : Break(c)

Spec == Init /\ [][Next]_vars

\* The registry and the in-memory queue alone, started where user 1 is offline
\* with a backlog of queued messages 1..n (n sends to the absent user lead
\* there): no Redis client, no topics.
Backlog(n) == [u \in {1} |-> [i \in 1..n |-> i]]

NextQueue ==
    \/ \E t \in Tasks, u \in Users : Connect(t, u)
    \/ \E t \in Tasks : ConnectAccepted(t)
    \/ \E t \in Tasks, u \in Users : SendToUserEnhanced(t, u)
    \/ \E t \in Tasks : SendWritten(t)
    \/ \E t \in Tasks : ReplayWritten(t)
    \/ \E t \in Tasks : Return(t)
    \/ \E c \in DOMAIN endpoint : EndpointDisconnect(c)
    \/ \E c \in DOMAIN endpoint : Break(c)

\* a backlog of two messages
InitQueued == InitWith(MaxCalls, MaxMsg, Backlog(2))
SpecQueued == InitQueued /\ [][NextQueue]_vars

\* A backlog that fills the queue to its cap.  One connection is made in such a
\* run and no socket fails: each replay takes a step per queued message.
FirstConnect(t, u) ==
    /\ next_conn = 1
    /\ \A x \in Tasks : tasks[x].pc # "accept"
    /\ Connect(t, u)

NextFull ==
    \/ \E t \in Tasks, u \in Users : FirstConnect(t, u)
    \/ \E t \in Tasks : ConnectAccepted(t)
    \/ \E t \in Tasks, u \in Users : SendToUserEnhanced(t, u)
    \/ \E t \in Tasks : SendWritten(t)
    \/ \E t \in Tasks : ReplayWritten(t)
    \/ \E t \in Tasks : Return(t)

InitFull == InitWith(MaxFill, MaxFill, Backlog(QueueLimit))
SpecFull == InitFull /\ [][NextFull]_vars

\* Queueing and replay with a Redis client whose calls may fail.
NextPersist ==
    \/ Initialize
    \/ \E t \in Tasks, u \in Users : Connect(t, u)
    \/ \E t \in Tasks : ConnectAccepted(t)
    \/ \E t \in Tasks, u \in Users : SendToUserEnhanced(t, u)
    \/ \E t \in Tasks : SendWritten(t)
    \/ \E t \in Tasks : QueueLpush(t)
    \/ \E t \in Tasks : QueueLtrim(t)
    \/ \E t \in Tasks : QueueLpushRaises(t)
    \/ \E t \in Tasks : QueueLtrimRaises(t)
    \/ \E t \in Tasks : ReplayWritten(t)
    \/ \E t \in Tasks : RedisLrange(t)
    \/ \E t \in Tasks : RedisWritten(t)
    \/ \E t \in Tasks : RedisDelete(t)
    \/ \E t \in Tasks : Return(t)

SpecPersist == Init /\ [][NextPersist]_vars

\* Shutdown while connections register, subscribe and are sent to.
NextShutdown ==
    \/ \E t \in Tasks, u \in Users : Connect(t, u)
    \/ \E t \in Tasks : ConnectAccepted(t)
    \/ \E t \in Tasks, u \in Users : SendToUserEnhanced(t, u)
    \/ \E t \in Tasks : SendWritten(t)
    \/ \E t \in Tasks : ReplayWritten(t)
    \/ \E t \in Tasks : DisconnectAll(t)
    \/ \E t \in Tasks : ClosesDone(t)
    \/ \E t \in Tasks : Return(t)
    \/ \E u \in Users, topic \in Topics : Subscribe(u, topic)
    \/ \E c \in DOMAIN endpoint : EndpointDisconnect(c)

SpecShutdown == Init /\ [][NextShutdown]_vars

\* Heartbeats, their answers, failing transports, leaving clients, shutdown.
NextHeartbeat ==
    \/ \E t \in Tasks, u \in Users : Connect(t, u)
    \/ \E t \in Tasks : ConnectAccepted(t)
    \/ \E t \in Tasks : BroadcastEnhanced(t)
    \/ \E t \in Tasks : SendWritten(t)
    \/ \E t \in Tasks : Return(t)
    \/ \E u \in Users : ClientHeartbeatResponse(u)
    \/ \E c \in DOMAIN endpoint : EndpointDisconnect(c)
    \/ \E c \in DOMAIN endpoint : Break(c)
    \/ \E t \in Tasks : DisconnectAll(t)
    \/ \E t \in Tasks : ClosesDone(t)

SpecHeartbeat == Init /\ [][NextHeartbeat]_vars

\* The endpoint handler: handshakes without user id, payloads it cannot
\* handle, subscriptions, next to connects and sends.
NextEndpoint ==
    \/ EndpointNoUser
    \/ \E t \in Tasks, u \in Users : Connect(t, u)
    \/ \E t \in Tasks : ConnectAccepted(t)
    \/ \E t \in Tasks, u \in Users : SendToUserEnhanced(t, u)
    \/ \E t \in Tasks : SendWritten(t)
    \/ \E t \in Tasks : ReplayWritten(t)
    \/ \E t \in Tasks : Return(t)
    \/ \E u \in Users, topic \in Topics : Subscribe(u, topic)
    \/ \E c \in DOMAIN endpoint : ClientMalformed(c)
    \/ \E c \in DOMAIN endpoint : ErrorReplyWritten(c)
    \/ \E c \in DOMAIN endpoint : EndpointDisconnect(c)
    \/ \E c \in DOMAIN endpoint : Break(c)

SpecEndpoint == Init /\ [][NextEndpoint]_vars

\* Topic publishes to subscribers who come and go: every message that is
\* queued was published with send_to_topic.
NextOffline ==
    \/ \E t \in Tasks, u \in Users : Connect(t, u)
    \/ \E t \in Tasks : ConnectAccepted(t)
    \/ \E t \in Tasks, topic \in Topics : SendToTopic(t, topic)
    \/ \E t \in Tasks : SendWritten(t)
    \/ \E t \in Tasks : ReplayWritten(t)
    \/ \E t \in Tasks : Return(t)
    \/ \E u \in Users, topic \in Topics : Subscribe(u, topic)
    \/ \E u \in Users, topic \in Topics : Unsubscribe(u, topic)
    \/ \E c \in DOMAIN endpoint : EndpointDisconnect(c)
    \/ \E c \in DOMAIN endpoint : Break(c)

SpecOffline == Init /\ [][NextOffline]_vars

\* The typed facade: one message object sent to a user and to a topic.
NextNotify ==
    \/ \E t \in Tasks, u \in Users : Connect(t, u)
    \/ \E t \in Tasks : ConnectAccepted(t)
    \/ \E t \in Tasks, u \in Users : NotifyRobotConnected(t, u)
    \/ \E t \in Tasks : SendWritten(t)
    \/ \E t \in Tasks : ReplayWritten(t)
    \/ \E t \in Tasks : Return(t)
    \/ \E u \in Users, topic \in Topics : Subscribe(u, topic)
    \/ \E c \in DOMAIN endpoint : EndpointDisconnect(c)

SpecNotify == Init /\ [][NextNotify]_vars

\* Connections registered under ids their callers chose.
NextExplicit ==
    \/ \E t \in Tasks, u \in Users : Connect(t, u)
    \/ \E t \in Tasks, u \in Users, connection_id \in ConnectionIds :
           ConnectWithId(t, u, connection_id)
    \/ \E t \in Tasks : ConnectAccepted(t)
    \/ \E t \in Tasks, u \in Users : SendToUserEnhanced(t, u)
    \/ \E t \in Tasks : SendWritten(t)
    \/ \E t \in Tasks : Return(t)
    \/ \E c \in DOMAIN endpoint : Break(c)

SpecExplicit == Init /\ [][NextExplicit]_vars

\* Queueing and replay with a Redis client, across a restart.
NextRestart ==
    \/ Initialize
    \/ \E t \in Tasks, u \in Users : Connect(t, u)
    \/ \E t \in Tasks : ConnectAccepted(t)
    \/ \E t \in Tasks, u \in Users : SendToUserEnhanced(t, u)
    \/ \E t \in Tasks : SendWritten(t)
    \/ \E t \in Tasks : QueueLpush(t)
    \/ \E t \in Tasks : QueueLtrim(t)
    \/ \E t \in Tasks : ReplayWritten(t)
    \/ \E t \in Tasks : RedisLrange(t)
    \/ \E t \in Tasks : RedisWritten(t)
    \/ \E t \in Tasks : RedisDelete(t)
    \/ \E t \in Tasks : Return(t)
    \/ Restart

SpecRestart == Init /\ [][NextRestart]_vars

\* The robot endpoints of api/v1/endpoints/robots.py next to the registry:
\* no queue, no Redis client, no topics.
NextRobots ==
    \/ \E t \in Tasks, u \in Users : Connect(t, u)
    \/ \E t \in Tasks : ConnectAccepted(t)
    \/ \E t \in Tasks : SendWritten(t)
    \/ \E t \in Tasks, u \in Users : SendRobotCommand(t, u)
    \/ \E t \in Tasks, u \in Users : ConnectToRobot(t, u)
    \/ \E t \in Tasks, u \in Users : DisconnectRobot(t, u)
    \/ \E t \in Tasks : LegacyWritten(t)
    \/ \E t \in Tasks : Return(t)
    \/ \E c \in DOMAIN endpoint : EndpointDisconnect(c)
    \/ \E c \in DOMAIN endpoint : Break(c)

SpecRobots == Init /\ [][NextRobots]_vars

\* Publishes to sockets of which one may stall.  The event loop resumes every
\* coroutine whose awaited call has completed, and a call that ended returns.
NextStall ==
    \/ \E t \in Tasks, u \in Users : Connect(t, u)
    \/ \E t \in Tasks : ConnectAccepted(t)
    \/ \E t \in Tasks, u \in Users : SendToUserEnhanced(t, u)
    \/ \E t \in Tasks, topic \in Topics : SendToTopic(t, topic)
    \/ \E t \in Tasks : BroadcastEnhanced(t)
    \/ \E t \in Tasks : SendWritten(t)
    \/ \E t \in Tasks : Return(t)
    \/ \E u \in Users, topic \in Topics : Subscribe(u, topic)
    \/ \E c \in DOMAIN endpoint : Stall(c)

\* the awaited call of t has completed and the event loop may resume t
AcceptCompleted(t) == Settled /\ tasks[t].pc = "accept"
WriteCompleted(t) ==
    /\ Settled
    /\ tasks[t].pc = "send_write"
    /\ tasks[t].it.cur \notin stalled

\* Weak fairness of ConnectAccepted(t) and SendWritten(t) is written out with
\* the predicates above, which are the guards of these actions: both actions
\* are enabled, and change the frame of t, exactly when their guard holds.
SpecStall ==
    /\ Init
    /\ [][NextStall]_vars
    /\ \A t \in Tasks :
          /\ WF_vars(Return(t))
          /\ []<>(~AcceptCompleted(t)) \/ []<><<ConnectAccepted(t)>>_vars
          /\ []<>(~WriteCompleted(t)) \/ []<><<SendWritten(t)>>_vars

\* The heartbeat loop beside connecting and leaving clients, failing and
\* stalling sockets.  The event loop resumes every coroutine whose awaited
\* call has completed, asyncio.sleep completes, and a call that ended returns.
NextBeat ==
    \/ \E t \in Tasks, u \in Users : Connect(t, u)
    \/ \E t \in Tasks : ConnectAccepted(t)
    \/ \E t \in Tasks : StartHeartbeatTask(t)
    \/ \E t \in Tasks : HeartbeatWake(t)
    \/ \E t \in Tasks : SendWritten(t)
    \/ \E t \in Tasks : Return(t)
    \/ \E c \in DOMAIN endpoint : EndpointDisconnect(c)
    \/ \E c \in DOMAIN endpoint : Break(c)
    \/ \E c \in DOMAIN endpoint : Stall(c)

\* Weak fairness of ConnectAccepted(t), SendWritten(t) and HeartbeatWake(t) is
\* written out with their guards, as in SpecStall.
SpecBeat ==
    /\ Init
    /\ [][NextBeat]_vars
    /\ \A t \in Tasks :
          /\ WF_vars(Return(t))
          /\ []<>(~AcceptCompleted(t)) \/ []<><<ConnectAccepted(t)>>_vars
          /\ []<>(~WriteCompleted(t)) \/ []<><<SendWritten(t)>>_vars
          /\ []<>(~SleepCompleted(t)) \/ []<><<HeartbeatWake(t)>>_vars

\* ------------------------------------------------------------- properties
Ids(envs) == [i \in DOMAIN envs |-> envs[i].message_id]
IsPrefix(p, s) == Len(p) <= Len(s) /\ SubSeq(s, 1, Len(p)) = p
Ended(f) == f.pc \in {"done", "raised"}

\* C1  Fan-out.  A send_to_user_enhanced(u, m) made while u has N >= 1
\* connections, during which no write fails and no other coroutine touches u,
\* returns normally having written m exactly once to each of the N
\* connections, to no other connection, and having queued nothing.
C1_FanOut ==
    \A t \in Tasks :
        LET f == tasks[t]
        IN  (f.op = "send" /\ Ended(f) /\ f.present0 /\ f.solo /\ f.failed = {})
            => /\ f.pc = "done"
               /\ \A c \in f.conns0 :
                    /\ Count(f.wrote, c) = 1
                    /\ Count(Ids(wire[c]), f.msg) = 1
               /\ Range(f.wrote) = f.conns0
               /\ f.queued = <<>>
               /\ \A u \in DOMAIN message_queue :
                    f.msg \notin Range(message_queue[u])

\* a send to a user with two connections has ended, undisturbed
C1_Witness ==
    \E t \in Tasks :
        /\ tasks[t].op = "send" /\ tasks[t].pc = "done"
        /\ tasks[t].solo /\ tasks[t].failed = {}
        /\ Cardinality(tasks[t].conns0) = 2

\* C2  Offline routing.  A send_to_user_enhanced(u, m) made while u has no
\* connection writes to no connection and appends m once, at the tail of u's
\* queue.
C2_OfflineRouting ==
    \A t \in Tasks :
        LET f == tasks[t]
        IN  (f.op = "send" /\ Ended(f) /\ ~f.present0 /\ f.solo)
            => /\ f.pc = "done"
               /\ f.wrote = <<>>
               /\ \A c \in DOMAIN wire : f.msg \notin Range(Ids(wire[c]))
               /\ f.queued = <<f.user>>
               /\ f.user \in DOMAIN message_queue
               /\ message_queue[f.user][Len(message_queue[f.user])] = f.msg
               /\ Count(message_queue[f.user], f.msg) = 1

\* a send to an absent user whose queue already held a message has ended
C2_Witness ==
    \E t \in Tasks :
        /\ tasks[t].op = "send" /\ tasks[t].pc = "done"
        /\ ~tasks[t].present0 /\ tasks[t].solo
        /\ Len(Get(message_queue, tasks[t].user, <<>>)) >= 2

\* C3  Drain on register.  A connect(u) made while u has no connection and
\* u's queue holds q1..qk, during which no write fails and no other coroutine
\* touches u, returns normally; the first k envelopes its connection was sent
\* are q1..qk in that order, and u's queue is gone when it returns.
C3_DrainOnRegister ==
    \A t \in Tasks :
        LET f == tasks[t]
        IN  (f.op = "connect" /\ Ended(f) /\ ~f.present0 /\ f.solo
                /\ f.failed = {})
            => /\ f.pc = "done"
               /\ IsPrefix(f.q0, Ids(wire[f.conn]))
               /\ f.user \notin DOMAIN message_queue

\* a first connect of a user with two queued messages has ended
C3_Witness ==
    \E t \in Tasks :
        /\ tasks[t].op = "connect" /\ tasks[t].pc = "done"
        /\ ~tasks[t].present0 /\ tasks[t].solo /\ tasks[t].failed = {}
        /\ Len(tasks[t].q0) = 2

\* C10  Sibling isolation.  When writes fail during a send_to_user_enhanced
\* (u, m) that no other coroutine disturbs, the call still returns normally,
\* every other connection u had is written m once, and the connections it
\* unregisters are exactly the failed ones.
C10_SiblingIsolation ==
    \A t \in Tasks :
        LET f == tasks[t]
        IN  (f.op = "send" /\ Ended(f) /\ f.present0 /\ f.solo
                /\ f.failed # {})
            => /\ f.pc = "done"
               /\ \A c \in f.conns0 \ f.failed : Count(f.wrote, c) = 1
               /\ f.removed = f.failed
               /\ Registered(Cur) \cap f.failed = {}

\* a send has ended in which one of the user's two connections failed
C10_Witness ==
    \E t \in Tasks :
        /\ tasks[t].op = "send" /\ tasks[t].pc = "done" /\ tasks[t].solo
        /\ tasks[t].failed # {}
        /\ tasks[t].conns0 \ tasks[t].failed # {}
        /\ tasks[t].wrote # <<>>

\* C4  Exactly-once replay.  A message queued while u was offline is written
\* to the reconnecting connection exactly once by connect(u), with or without
\* the Redis mirror, and the queue is gone afterwards.
C4_ExactlyOnceReplay ==
    \A t \in Tasks :
        LET f == tasks[t]
        IN  (f.op = "connect" /\ Ended(f) /\ ~f.present0 /\ f.solo
                /\ f.failed = {})
            => /\ f.pc = "done"
               /\ \A m \in Range(f.q0) : Count(Ids(wire[f.conn]), m) = 1
               /\ f.user \notin DOMAIN message_queue

\* C5  No re-delivery across drains.  A queued message replayed by the drain
\* of one connect(u) is replayed by no other drain, whether the other connect
\* ended before, or overlaps.
ReplayedIds(f) == {f.replayed[i].id : i \in DOMAIN f.replayed}
C5_NoRedelivery ==
    \A t \in Tasks :
        /\ ReplayedIds(tasks[t]) \cap drained = {}
        /\ \A x \in Tasks \ {t} :
              ReplayedIds(tasks[t]) \cap ReplayedIds(tasks[x]) = {}

\* C6  Per-connection ordering.  Message ids are handed out in the order of
\* the publish calls: on every connection, of two published messages it was
\* sent, the one published first is sent first.
FirstPos(s, x) == Min({i \in DOMAIN s : s[i] = x})
C6_PerConnectionOrder ==
    \A c \in DOMAIN wire :
        \A m1, m2 \in Range(Ids(wire[c])) :
            (0 < m1 /\ m1 < m2)
            => FirstPos(Ids(wire[c]), m1) < FirstPos(Ids(wire[c]), m2)

\* C7  Queue bound.  No user's in-memory queue ever holds more than 100
\* messages; a step that enqueues m onto a queue of 100 leaves the 99 newest
\* of them in their order followed by m, and the call that enqueued does not
\* end by raising.
C7_QueueBound ==
    /\ [](\A u \in DOMAIN message_queue :
            Len(message_queue[u]) <= QueueLimit)
    /\ [](\A t \in Tasks :
            (Ended(tasks[t]) /\ tasks[t].queued # <<>>)
            => tasks[t].pc = "done")
    /\ [][\A t \in Tasks, u \in DOMAIN message_queue :
            (/\ tasks'[t].queued = Append(tasks[t].queued, u)
             /\ Len(message_queue[u]) = QueueLimit)
            => /\ u \in DOMAIN message_queue'
               /\ message_queue'[u]
                    = Append(Tail(message_queue[u]), tasks'[t].msg)
               /\ tasks'[t].pc # "raised"]_vars

\* a send has returned that enqueued onto a full queue: the queue holds 100
\* messages, its oldest are gone and the new message is its last
C7_Witness ==
    \E t \in Tasks :
        LET f == tasks[t]
        IN  /\ f.op = "send" /\ f.pc = "done" /\ f.queued = <<f.user>>
            /\ f.user \in DOMAIN message_queue
            /\ Len(message_queue[f.user]) = QueueLimit
            /\ message_queue[f.user][1] > 1
            /\ message_queue[f.user][QueueLimit] = f.msg

\* C8  Topic delivery.  send_to_topic(topic, m) reaches (writes to, or queues
\* for) only users whose last request for the topic when the call was made
\* was subscribe, and, when it returns with no failed write, all of them;
\* nothing of m is sent to or queued for anybody else.
Reached(f) == {endpoint[c].user : c \in Range(f.wrote)} \cup Range(f.queued)
C8_TopicDelivery ==
    \A t \in Tasks :
        LET f == tasks[t]
        IN  f.op = "topic"
            => /\ Reached(f) \subseteq f.subs0
               /\ (f.pc = "done" /\ f.failed = {}) => Reached(f) = f.subs0
               /\ \A c \in DOMAIN wire :
                    f.msg \in Range(Ids(wire[c])) => endpoint[c].user \in f.subs0
               /\ \A u \in DOMAIN message_queue :
                    f.msg \in Range(message_queue[u]) => u \in f.subs0

\* a send_to_topic has ended that reached its subscriber and left out a user
\* with an open connection
C8_Witness ==
    \E t \in Tasks :
        /\ tasks[t].op = "topic" /\ tasks[t].pc = "done"
        /\ tasks[t].wrote # <<>>
        /\ \E c \in DOMAIN endpoint :
              /\ endpoint[c].state = "open"
              /\ endpoint[c].user \notin tasks[t].subs0
              /\ wire[c] # <<>>

\* C11  Heartbeat broadcast.  A send_heartbeat (broadcast_enhanced) that no
\* other coroutine disturbs ends normally, also when a write fails; every
\* connection registered when it was called whose write did not fail is
\* written the heartbeat once, and exactly the failed connections are dropped
\* from the registry.
C11_HeartbeatBroadcast ==
    \A t \in Tasks :
        LET f == tasks[t]
        IN  (f.op = "broadcast" /\ Ended(f) /\ f.solo)
            => /\ f.pc = "done"
               /\ \A c \in f.conns0 \ f.failed :
                    /\ Count(f.wrote, c) = 1
                    /\ Count(Ids(wire[c]), f.msg) = 1
               /\ f.removed = f.failed
               /\ Registered(Cur) = f.conns0 \ f.failed

\* a heartbeat has ended in which the write to one user's connection failed
\* and another user's connection was written after it
C11_Witness ==
    \E t \in Tasks :
        LET f == tasks[t]
        IN  /\ f.op = "broadcast" /\ f.pc = "done" /\ f.solo
            /\ f.failed # {}
            /\ \E c \in f.conns0 \ f.failed :
                  /\ \A x \in f.failed : endpoint[x].user < endpoint[c].user
                  /\ c \in Range(f.wrote)

\* C12  No exception escapes.  send_to_user_enhanced, send_to_topic and
\* broadcast_enhanced never end by raising to their caller.
C12_NoExceptionEscapes ==
    \A t \in Tasks :
        tasks[t].op \in {"send", "topic", "broadcast"}
        => tasks[t].pc # "raised"

\* C13  Snapshot before suspension.  Whatever registers or unregisters while a
\* loop over a user's connections is suspended in a write, the loop's next
\* turn meets no concurrent-modification fault.
C13_SnapshotBeforeSuspension ==
    \A t \in Tasks :
        tasks[t].pc \in {"send_write", "replay_write", "rd_write"}
        => IterNext(Cur, tasks[t].it).kind # "raise"

\* C14  Topic snapshot.  At every point of a send_to_topic the users it has
\* called send_to_user_enhanced for and those still ahead are together the
\* subscribers at the start of the call, whatever subscribes or unsubscribes
\* meanwhile; when it returns it has sent to exactly those; and it raises only
\* when another coroutine changed a user's connections, never because the
\* subscriber set changed.
Subscribers(topic) == {u \in Users : <<u, topic>> \in subscribed}
C14_TopicSnapshot ==
    \A t \in Tasks :
        LET f == tasks[t]
        IN  f.op = "topic"
            => /\ Range(f.sent) \cup Range(f.todo) = f.subs0
               /\ f.pc = "done" => Range(f.sent) = f.subs0
               /\ f.pc = "raised" => ~f.solo

\* a send_to_topic that wrote to a subscriber has returned, and the topic's
\* subscribers are no longer those it started with
C14_Witness ==
    \E t \in Tasks :
        LET f == tasks[t]
        IN  /\ f.op = "topic" /\ f.pc = "done"
            /\ f.wrote # <<>>
            /\ Subscribers(f.topic) # f.subs0

\* C15  Business operations are independent of notification delivery.  A
\* robot command, robot connect or robot disconnect request whose business
\* part succeeded is answered with success, and its command or connection
\* keeps the status of the success, whether or not the notification could be
\* written to the user's sockets.
C15_BusinessIndependent ==
    \A t \in Tasks :
        LET f == tasks[t]
        IN  (f.op \in {"robot_command", "robot_connect", "robot_disconnect"}
                /\ Ended(f))
            => /\ f.pc = "done"
               /\ f.http \in {200, 201}
               /\ f.status \in {"executing", "connected", "disconnected"}

\* C16  Publish does not wait on a slow socket.  Every send_to_user_enhanced,
\* send_to_topic and broadcast_enhanced that was called returns to its
\* producer, also when the write to some connection never completes.
C16_PublishReturns ==
    \A t \in Tasks :
        [](tasks[t].op \in {"send", "topic", "broadcast"}
            => <>(tasks[t].pc \in {"done", "raised"}))

\* C17  Presence invariant.  In every reachable state the keys of the
\* connection map are the users with at least one registered connection, no
\* user is present with an empty connection set, and the presence metadata
\* has exactly the keys of the connection map.
C17_PresenceInvariant ==
    /\ DOMAIN user_metadata = DOMAIN active_connections
    /\ \A u \in DOMAIN active_connections : Live(active_connections[u]) # {}
    /\ \A u \in Users :
          u \in DOMAIN active_connections
          <=> \E c \in Registered(Cur) : endpoint[c].user = u

\* one user left with the last connection while another user is still
\* present with a registered connection
C17_Witness ==
    \E c1, c2 \in DOMAIN endpoint :
        /\ endpoint[c1].state = "closed"
        /\ endpoint[c1].user \notin DOMAIN active_connections
        /\ endpoint[c1].user \notin DOMAIN user_metadata
        /\ endpoint[c2].user \in DOMAIN active_connections
        /\ c2 \in Live(active_connections[endpoint[c2].user])

\* C18  Topic invariant.  In every reachable state no topic is a key of the
\* subscription map with an empty subscriber set: a topic is a key exactly
\* while some user is subscribed to it, so unsubscribing the last subscriber
\* removes it, and active_topics of the stats counts the topics with at
\* least one subscriber.
C18_TopicInvariant ==
    /\ \A topic \in DOMAIN subscriptions : subscriptions[topic] # {}
    /\ \A topic \in Topics :
          topic \in DOMAIN subscriptions <=> Subscribers(topic) # {}
    /\ GetConnectionStats(Cur).active_topics
         = Cardinality({topic \in Topics : Subscribers(topic) # {}})

\* a topic that had subscribers when a send_to_topic began has lost its last
\* subscriber and is gone from the map
C18_Witness ==
    \E t \in Tasks :
        /\ tasks[t].op = "topic"
        /\ tasks[t].subs0 # {}
        /\ Subscribers(tasks[t].topic) = {}
        /\ tasks[t].topic \notin DOMAIN subscriptions
        /\ GetConnectionStats(Cur).active_topics = 0

\* C19  Register always succeeds.  In every state a connect(websocket, user)
\* that ended has returned its connection id, one handed to no other
\* connect; it never raises, also when the user has queued messages, when
\* another connect for the user is in progress, and when a write made during
\* the replay or the confirmation fails.
C19_RegisterSucceeds ==
    \A t \in Tasks : LET f == tasks[t] IN
        (f.op = "connect" /\ Ended(f))
        => /\ f.pc = "done"
           /\ f.conn \in DOMAIN endpoint
           /\ \A x \in Tasks \ {t} : tasks[x].conn # f.conn

\* the ids of the messages the mirror holds for u
StoredMirror(u) ==
    {Get(redis_store, u, <<>>)[i].message_id :
        i \in DOMAIN Get(redis_store, u, <<>>)}

\* the ids of the messages held for u by the in-memory queue or by the mirror
StoredIds(u) ==
    Range(Get(message_queue, u, <<>>))
    \cup {Get(redis_store, u, <<>>)[i].message_id :
            i \in DOMAIN Get(redis_store, u, <<>>)}

\* the step of connect t in which its replay finishes
ReplayFinishes(t) ==
    /\ tasks[t].op = "connect" /\ tasks[t].msg = 0
    /\ tasks'[t].op = "connect" /\ tasks'[t].msg < 0

\* C20  Drain clears both stores.  The in-memory queue of u and u's entry in
\* the mirror are cleared together; when the replay triggered by connect(u)
\* finishes both are empty; and from then on no message that this replay
\* wrote is held by either store.
C20_DrainClearsBoth ==
    [][/\ \A u \in Users :
             (u \in DOMAIN message_queue /\ u \notin DOMAIN message_queue')
             => u \notin DOMAIN redis_store'
       /\ \A t \in Tasks :
             ReplayFinishes(t) => StoredIds(tasks[t].user)' = {}
       /\ \A t \in Tasks, u \in Users :
             (tasks'[t].op = "connect" /\ tasks'[t].user = u
                /\ tasks'[t].msg < 0)
             => StoredIds(u)' \cap ReplayedIds(tasks'[t]) = {}]_vars

\* C21  Persistence fallback.  A send_to_user_enhanced(u, m) that takes the
\* offline route never raises, whether there is no Redis client, the Redis
\* calls succeed, or lpush or ltrim raises; and when no other coroutine touched
\* u meanwhile, m is at the tail of u's in-memory queue when the call ends.
C21_PersistenceFallback ==
    \A t \in Tasks :
        LET f == tasks[t]
        IN  (f.op = "send" /\ Ended(f) /\ f.queued # <<>>)
            => /\ f.pc = "done"
               /\ f.solo
                  => /\ f.user \in DOMAIN message_queue
                     /\ message_queue[f.user][Len(message_queue[f.user])]
                          = f.msg

\* a send whose lpush raised has ended: the message is in the in-memory queue
\* and not in the mirror
C21_Witness ==
    \E t \in Tasks :
        /\ tasks[t].op = "send" /\ tasks[t].pc = "done" /\ tasks[t].solo
        /\ "lpush" \in tasks[t].rfailed
        /\ tasks[t].msg \in Range(Get(message_queue, tasks[t].user, <<>>))
        /\ tasks[t].msg \notin StoredMirror(tasks[t].user)

\* C22  Graceful shutdown.  When disconnect_all() returns, every handle it
\* released from the registry had close invoked on it, including one that
\* registered while the closes were in progress, and the connection,
\* presence, subscription and queue maps are empty.
C22_GracefulShutdown ==
    \A t \in Tasks :
        LET f == tasks[t]
        IN  (f.op = "shutdown" /\ Ended(f))
            => /\ f.pc = "done"
               /\ f.removed \subseteq f.conns0
               /\ active_connections = <<>> /\ user_connections = <<>>
               /\ user_metadata = <<>>
               /\ DOMAIN subscriptions = {}
               /\ message_queue = <<>>

\* C23  No timeout pruning.  A connection leaves the registry only in a step
\* in which a write to it had raised and the publish cleaned it up, in which
\* its endpoint ended, or in which disconnect_all cleared the maps; a
\* heartbeat whose write succeeds and a heartbeat_response remove nothing.
C23_NoTimeoutPruning ==
    [][\A c \in Registered(Cur) \ Registered(Cur)' :
          \/ endpoint[c].state = "open" /\ endpoint'[c].state = "closed"
          \/ \E t \in Tasks :
                /\ tasks'[t].op = "shutdown" /\ tasks'[t].pc = "done"
                /\ tasks[t].pc # "done"
                /\ c \in tasks'[t].removed
          \/ \E t \in Tasks :
                /\ c \in broken
                /\ c \in tasks'[t].failed
                /\ c \in tasks'[t].removed /\ c \notin tasks[t].removed]_vars

\* a heartbeat wrote to a connection of a user who has answered one, and to
\* a connection of a user who has not; both are still registered
C23_Witness ==
    \E t \in Tasks, c1, c2 \in Registered(Cur) :
        /\ tasks[t].op = "broadcast" /\ tasks[t].pc = "done"
        /\ {c1, c2} \subseteq Range(tasks[t].wrote)
        /\ endpoint[c1].user \in DOMAIN responses
        /\ endpoint[c2].user \notin DOMAIN responses

\* C24  Handshake rejection.  A connection attempt without user id is closed
\* with code 4001 and registers nothing: the connection map, the legacy map,
\* the presence metadata, the subscriptions, the queues and the handlers of
\* the registered connections are as they were.
C24_HandshakeRejection ==
    [][rejected' # rejected
       => /\ rejected' = Append(rejected, UserIdRequired)
          /\ UNCHANGED <<active_keys, active_connections, user_connections,
                         user_metadata, subscriptions, message_queue,
                         redis_store, endpoint, wire, next_conn>>]_vars

\* an attempt was rejected while a user was registered and subscribed and
\* another had a queue
C24_Witness ==
    /\ rejected # <<>>
    /\ Registered(Cur) # {}
    /\ DOMAIN subscriptions # {}
    /\ DOMAIN message_queue # {}

\* C25  Malformed inbound payload.  When the reply to a payload the handler
\* could not parse or handle has been written on a working connection c, c
\* has got the error reply, its handler is back in the read loop, and the
\* registry, the subscriptions and what every other connection was sent are
\* unchanged.
C25_MalformedPayload ==
    [][\A c \in DOMAIN endpoint :
          (endpoint[c].state = "replying" /\ endpoint'[c].state # "replying"
             /\ c \notin broken)
          => /\ wire'[c] = Append(wire[c], ErrorReply)
             /\ endpoint'[c].state = "open"
             /\ \A x \in DOMAIN wire \ {c} : wire'[x] = wire[x]
             /\ UNCHANGED <<active_connections, user_connections,
                            user_metadata, subscriptions>>]_vars

\* a registered connection of a subscribed user got two error replies: the
\* read loop went on after the first
C25_Witness ==
    \E c \in Registered(Cur) :
        /\ Count(wire[c], ErrorReply) = 2
        /\ endpoint[c].state = "open"
        /\ \E topic \in Topics : endpoint[c].user \in Subscribers(topic)

\* C26  Connect confirmation.  A connect(u) with new connection c that ran
\* with no write failing and no other coroutine touching u has written to c
\* the user_connected envelope with c's connection_id and user id u, once
\* and as the last envelope, after every queued message it replayed to c.
C26_ConnectConfirmation ==
    \A t \in Tasks :
        LET f == tasks[t]
            w == wire[f.conn]
        IN  (f.op = "connect" /\ f.pc = "done" /\ f.solo /\ f.failed = {})
            => /\ w # <<>>
               /\ w[Len(w)] = [message_id |-> 0 - f.conn, user_id |-> f.user]
               /\ Count(Ids(w), 0 - f.conn) = 1
               /\ \A i \in 1..(Len(w) - 1) : w[i].message_id \in ReplayedIds(f)
               /\ \A i \in DOMAIN f.replayed :
                     f.replayed[i].conn = f.conn
                     => \E j \in 1..(Len(w) - 1) :
                           w[j].message_id = f.replayed[i].id

\* a connect that replayed a queued message has ended with the
\* confirmation behind it
C26_Witness ==
    \E t \in Tasks :
        /\ tasks[t].op = "connect" /\ tasks[t].pc = "done" /\ tasks[t].solo
        /\ tasks[t].failed = {}
        /\ tasks[t].replayed # <<>>
        /\ Len(wire[tasks[t].conn]) >= 2

\* C27  Publish result.  A send_to_user_enhanced(u, m) that ended returned
\* {delivered_count, queued_count}: delivered_count is the number of u's
\* connections it wrote successfully, queued_count is 1 exactly when u had no
\* connection; a failed write lowers delivered_count and does not raise.
C27_PublishResult ==
    \A t \in Tasks :
        LET f == tasks[t]
        IN  (f.op = "send" /\ Ended(f) /\ f.solo)
            => /\ f.pc = "done"
               /\ f.result =
                    [delivered_count |-> Cardinality(Range(f.wrote)),
                     queued_count |-> IF f.queued = <<>> THEN 0 ELSE 1]
               /\ f.queued # <<>> <=> ~f.present0

\* the ids the replay of f wrote to its own connection, in order
ReplayedTo(f) ==
    LET own == {i \in DOMAIN f.replayed : f.replayed[i].conn = f.conn}
        Nth[k \in 0..Len(f.replayed)] ==
            IF k = 0 THEN <<>>
            ELSE IF k \in own THEN Append(Nth[k - 1], f.replayed[k].id)
            ELSE Nth[k - 1]
    IN  Nth[Len(f.replayed)]

\* the first connection u registered after the restart: the sockets of the
\* old process are the broken ones whose handler is closed
NextAfterRestart(u) ==
    LET new == {c \in DOMAIN endpoint :
                  endpoint[c].user = u
                  /\ ~(c \in broken /\ endpoint[c].state = "closed")}
    IN  IF new = {} THEN 0 ELSE Min(new)

\* C28  Restart durability.  With a Redis client, the messages that were
\* queued for an offline user u when the process restarted are replayed by
\* u's next connect from the mirror, in the order in which they were
\* enqueued, and the mirror entry of u is deleted.
C28_RestartDurability ==
    \A t \in Tasks :
        LET f == tasks[t]
            lost == Get(lost_queue, f.user, <<>>)
        IN  (/\ f.op = "connect" /\ f.pc = "done"
             /\ redis_client /\ restarts > 0
             /\ f.conn = NextAfterRestart(f.user)
             /\ f.q0 = <<>> /\ f.solo /\ f.failed = {})
            => /\ ReplayedTo(f) = lost
               /\ f.user \notin DOMAIN redis_store

\* C29  Connection ids are unique: no two registered connections, of the same
\* user or of different users, are registered under the same connection id,
\* whether connect() drew the id or its caller passed it.
C29_UniqueConnectionIds ==
    \A c1 \in Registered(Cur) : \A c2 \in Registered(Cur) :
        c1 # c2 => endpoint[c1].conn # endpoint[c2].conn

\* C30  Endpoint cleanup: once the endpoint handler of a connection has ended,
\* because the client disconnected or because an error escaped the read loop
\* or connect(), the connection is no longer in the registry.
C30_EndpointCleanup ==
    \A c \in DOMAIN endpoint :
        endpoint[c].state = "closed" => c \notin Registered(Cur)

\* C31  Heartbeat loop isolation.  Once started, the heartbeat loop is never
\* ended by a failure: it is in send_heartbeat or asleep, and every
\* send_heartbeat it has called is followed by another one.
C31_HeartbeatLoop ==
    /\ [](heartbeat.state \in {"off", "calling", "sleep30", "sleep5"})
    /\ \A n \in 1..(MaxBeats - 1) :
          (heartbeat.beats = n) ~> (heartbeat.beats = n + 1)

\* C32  Offline subscribers.  A user who has left is still subscribed to the
\* topics of their last subscribe requests; a send_to_topic that nothing
\* disturbs and in which no write fails has queued its message once for every
\* subscriber without a connection and written it to none of their sockets;
\* and the subscriber's next connect replays the queue to the new connection.
C32_OfflineSubscribers ==
    /\ \A u \in Users : \A topic \in Topics :
          (<<u, topic>> \in subscribed /\ u \notin DOMAIN active_connections)
          => u \in Get(subscriptions, topic, {})
    /\ \A t \in Tasks :
          LET f == tasks[t]
          IN  (f.op = "topic" /\ Ended(f) /\ f.solo /\ f.failed = {})
              => \A u \in f.subs0 \ DOMAIN active_connections :
                    /\ f.pc = "done"
                    /\ Count(f.queued, u) = 1
                    /\ Count(Get(message_queue, u, <<>>), f.msg) = 1
                    /\ \A c \in DOMAIN endpoint :
                          endpoint[c].user = u
                          => f.msg \notin Range(Ids(wire[c]))
    /\ \A t \in Tasks :
          LET f == tasks[t]
          IN  (f.op = "connect" /\ Ended(f) /\ ~f.present0 /\ f.solo
                  /\ f.failed = {})
              => /\ f.pc = "done"
                 /\ IsPrefix(f.q0, Ids(wire[f.conn]))

\* a subscriber who had left and was sent a topic message meanwhile has
\* connected again, still subscribed, and the connect has replayed the message
C32_Witness ==
    \E t \in Tasks :
        LET f == tasks[t]
        IN  /\ f.op = "connect" /\ f.pc = "done" /\ ~f.present0 /\ f.solo
            /\ f.failed = {}
            /\ f.q0 # <<>>
            /\ \E topic \in Topics : f.user \in Get(subscriptions, topic, {})
            /\ Range(f.q0) \subseteq Range(Ids(wire[f.conn]))

\* C33  Closed is terminal.  A connection that has been unregistered is never
\* registered again, and no step begins a write to it, neither one its socket
\* accepts nor one that raises: not a later publish or replay, and not one
\* that was suspended in a write to another connection when it was removed.
C33_ClosedIsTerminal ==
    [][\A c \in DOMAIN endpoint :
          c \notin Registered(Cur)
          => /\ c \notin Registered(Cur)'
             /\ wire'[c] = wire[c]
             /\ \A t \in Tasks :
                   c \in tasks'[t].failed => c \in tasks[t].failed]_vars

\* a publish wrote to one connection of a user, another connection the user
\* had was unregistered by someone else while that write was pending, and the
\* publish has ended without writing to it
C33_Witness ==
    \E t \in Tasks : \E c \in DOMAIN endpoint :
        LET f == tasks[t]
        IN  /\ f.op \in {"send", "topic", "broadcast"} /\ Ended(f)
            /\ c \in f.conns0 /\ c \notin Registered(Cur)
            /\ c \notin f.removed /\ c \notin f.failed
            /\ f.wrote # <<>> /\ c \notin Range(f.wrote)

\* C34  Broadcast never queues.  A broadcast_enhanced writes to connections
\* of users who were present when it began and queues its message for nobody,
\* also not for a user whose last connection was removed during the call.
C34_BroadcastNeverQueues ==
    \A t \in Tasks :
        LET f == tasks[t]
        IN  f.op = "broadcast"
            => /\ f.queued = <<>>
               /\ \A u \in DOMAIN message_queue :
                     f.msg \notin Range(message_queue[u])
               /\ Range(f.wrote) \subseteq Registered(Cur) \cup f.conns0

\* C35  Delivered or queued.  When send_to_user_enhanced(u, m) has returned,
\* a socket of u has accepted m or the call has put m in u's queue, also when
\* u was present and every write failed.
C35_DeliveredOrQueued ==
    \A t \in Tasks :
        LET f == tasks[t]
        IN  (f.op = "send" /\ f.pc = "done")
            => \/ \E c \in Range(f.wrote) :
                    endpoint[c].user = f.user
                    /\ f.msg \in Range(Ids(wire[c]))
               \/ f.queued = <<f.user>>

\* C36  Envelope addressing.  Every envelope that a connection of user u was
\* sent carries user_id = u, in live sends and in replays of the queue, also
\* when the message object was sent to or queued for other users as well.
C36_EnvelopeAddressing ==
    \A c \in DOMAIN wire :
        \A i \in DOMAIN wire[c] : wire[c][i].user_id = endpoint[c].user

\* C37  No duplicate per producer call.  One call of notify_robot_connected
\* writes its message to a connection at most once and queues it for a user
\* at most once, also when the user it names is subscribed to the topic.
C37_NoDuplicatePerCall ==
    \A t \in Tasks :
        LET f == tasks[t]
        IN  f.op = "notify"
            => /\ \A c \in DOMAIN wire :
                     /\ Count(f.wrote, c) <= 1
                     /\ Count(Ids(wire[c]), f.msg) <= 1
               /\ \A u \in Users :
                     /\ Count(f.queued, u) <= 1
                     /\ Count(Get(message_queue, u, <<>>), f.msg) <= 1

\* C38  Present implies drained.  Whenever no connect of user u is in
\* progress and u has a registered connection, u's in-memory queue is empty.
Connecting(u) ==
    \E t \in Tasks :
        /\ tasks[t].op = "connect" /\ tasks[t].user = u
        /\ tasks[t].pc \notin {"idle", "done", "raised"}
C38_PresentImpliesDrained ==
    \A u \in Users :
        (~Connecting(u) /\ Live(Get(active_connections, u, <<>>)) # {})
        => Get(message_queue, u, <<>>) = <<>>

\* a connect of a user who had a queue has returned, the user is present and
\* no other connect of the user is under way
C38_Witness ==
    \E t \in Tasks :
        LET f == tasks[t]
        IN  /\ f.op = "connect" /\ f.pc = "done" /\ f.q0 # <<>>
            /\ ~Connecting(f.user)
            /\ f.conn \in Live(Get(active_connections, f.user, <<>>))

\* C39  Unregister is idempotent.  In every reachable state, for every user
\* and every connection: disconnect does not raise; when the user has no
\* connection registered under that connection's id it changes nothing; and
\* a second disconnect changes nothing after the first.
C39_UnregisterIdempotent ==
    \A u \in Users : \A c \in DOMAIN endpoint :
        LET once == Disconnect(Cur, u, c)
        IN  /\ ~DisconnectRaises(Cur, u, c)
            /\ ~DisconnectRaises(once, u, c)
            /\ Holder(Cur, u, c) \notin Live(Get(active_connections, u, <<>>))
               => once = Cur
            /\ Disconnect(once, u, c) = once

\* a fan-out unregistered a connection whose write failed, and the handler
\* of that connection has ended since, calling disconnect for it again
C39_Witness ==
    \E t \in Tasks : \E c \in DOMAIN endpoint :
        /\ tasks[t].op \in {"topic", "broadcast"}
        /\ c \in tasks[t].removed
        /\ endpoint[c].state = "closed"
        /\ DOMAIN active_connections # {}

\* C9  Presence on unregister.  When the endpoint of a registered connection
\* c of user u disconnects: if c was u's last connection, u leaves the
\* connection map and the metadata and total_users drops by one; otherwise u
\* stays, total_users is unchanged and total_connections drops by one.
C9_PresenceOnUnregister ==
    [][\A c \in DOMAIN endpoint :
          LET u == endpoint[c].user
          IN  (/\ endpoint[c].state = "open"
               /\ endpoint'[c].state = "closed"
               /\ u \in DOMAIN active_connections
               /\ c \in Live(active_connections[u]))
              => IF Live(active_connections[u]) = {c}
                 THEN /\ u \notin DOMAIN active_connections'
                      /\ u \notin DOMAIN user_metadata'
                      /\ GetConnectionStats(Cur)'.total_users
                           = GetConnectionStats(Cur).total_users - 1
                 ELSE /\ u \in DOMAIN active_connections'
                      /\ u \in DOMAIN user_metadata'
                      /\ GetConnectionStats(Cur)'.total_users
                           = GetConnectionStats(Cur).total_users
                      /\ GetConnectionStats(Cur)'.total_connections
                           = GetConnectionStats(Cur).total_connections - 1]_vars

\* both connections of a user were disconnected by their endpoints, the
\* second one as the user's last
C9_Witness ==
    \E c1, c2 \in DOMAIN endpoint :
        /\ c1 # c2
        /\ endpoint[c1].user = endpoint[c2].user
        /\ endpoint[c1].state = "closed" /\ endpoint[c2].state = "closed"
        /\ {c1, c2} \subseteq broken
        /\ endpoint[c1].user \notin DOMAIN active_connections
        /\ \A t \in Tasks : tasks[t].pc = "idle"
====
